---- MODULE Spec2Model ----
(***************************************************************************)
(* The token tier (layer2) of covalent: the mempool, the block producer,   *)
(* the token executor with its two caches, the chain store and the         *)
(* get_balance view, as one state machine.                                 *)
(*                                                                         *)
(* Hashes are modelled as collision-free: a digest is the record           *)
(* [digest |-> preimage], a trie root is [root |-> contents], and the      *)
(* all-zero hash (Hash::default()) is a value of its own, different from   *)
(* every digest.  A trie is the map of the keys it holds; the trie DB is   *)
(* content-addressed, so opening a trie by a committed root gives back     *)
(* the contents that root was computed from.                               *)
(***************************************************************************)
EXTENDS Integers, Sequences, FiniteSets, TLC

\* ------------------------------------------------------------- bounds
\* how many transactions the pool may hold in the model
MaxPool == 3
\* how many blocks the producer builds in the model
MaxBlocks == 2
\* the largest value of the unsigned balance type.  The code's U256 holds
\* 2^256 - 1; the model keeps the type's behaviour (+ and - panic when the
\* result leaves the range) at a width TLC can enumerate.
U256_MAX == 7

\* transactions of one channel block, channel blocks produced, and the
\* largest version an UpdateChannel or a CloseChannel carries
MaxChannelTxs == 2
MaxChannelBlocks == 2
MaxVersion == 2
\* calls of exec made on one Executor
MaxExecCalls == 2
\* transactions the channel mempool holds, and the capacity of the vector
\* package_transactions fills (200 in the source, scaled down)
MaxChannelPool == 4
PackageCapacity == 2
\* transactions the channel mempool holds while the producer's loop runs
MaxLoopPool == 3

\* ---------------------------------------------------------- constants
BLOCK_INTERVAL == 3
CYCLE_LIMIT == 30000000
TX_CYCLE_LIMIT == 100000
\* Config::chain_id of the running node
CHAIN_ID == 1

\* ------------------------------------------------------------ helpers
\* Option<T>: None is the empty sequence, Some(x) the sequence <<x>>
None == <<>>
Some(x) == <<x>>

EmptyMap == [k \in {} |-> {}]
Put(m, k, v) == [x \in (DOMAIN m) \cup {k} |-> IF x = k THEN v ELSE m[x]]

\* Hash::default(): 32 zero bytes
ZeroHash == [zero |-> TRUE]
\* Hasher::digest_: blake3, taken as collision-free
Digest(x) == [digest |-> x]

\* ------------------------------------------------------------- types
Addresses == {"A", "B"}
TokenIds == {"T1", "T2"}

\* TokenBalance::default()
DefaultBalance == [locked |-> 0, active |-> 0]
is_uninitialized(b) == b.locked = 0 /\ b.active = 0

Req(address, token_id, amount, action) ==
    [address |-> address, token_id |-> token_id, amount |-> amount,
     action |-> action, to |-> None]
TransferReq(address, to, token_id, amount) ==
    [address |-> address, token_id |-> token_id, amount |-> amount,
     action |-> "Transfer", to |-> to]

Raw(chain_id, cycles_limit, requests) ==
    [chain_id |-> chain_id, cycles_limit |-> cycles_limit, requests |-> requests]

\* a signature is valid for exactly the (message, key) it was made over
Sign(msg, key) == [msg |-> msg, signer |-> key]
SignedTx(raw, key) ==
    [raw |-> raw, tx_hash |-> Digest(raw), pub_key |-> key,
     signature |-> Sign(Digest(raw), key)]

cycle_limit(stx) == stx.raw.cycles_limit
chain_id(stx) == stx.raw.chain_id

\* ------------------------------------------------------------- inputs
\* the request lists clients submit in the model: every action, with
\* amounts that pass and amounts that fail its precondition, two tokens of
\* one address, a second address, and a transaction whose first request
\* passes and whose second fails
RequestLists ==
    { <<Req("A", "T1", 2, "Mint")>>,
      <<Req("A", "T1", 1, "Lock")>>,
      <<Req("A", "T1", 2, "Unlock")>>,
      <<Req("A", "T1", 2, "Divert")>>,
      <<Req("A", "T2", 1, "Mint")>>,
      <<Req("A", "T1", 1, "Mint"), Req("A", "T1", 4, "Lock")>>,
      <<TransferReq("A", Some("B"), "T1", 1)>>,
      <<Req("B", "T1", 1, "Unlock")>>,
      <<Req("B", "T2", U256_MAX, "Mint")>> }

ValidTxs == { SignedTx(Raw(CHAIN_ID, TX_CYCLE_LIMIT, rs), "k1") : rs \in RequestLists }

\* transactions that admission must refuse, one per check of verify_tx
InvalidTxs ==
    LET good == SignedTx(Raw(CHAIN_ID, TX_CYCLE_LIMIT, <<Req("A", "T1", 2, "Mint")>>), "k1")
    IN  { SignedTx(Raw(CHAIN_ID + 1, TX_CYCLE_LIMIT, good.raw.requests), "k1"),
          SignedTx(Raw(CHAIN_ID, TX_CYCLE_LIMIT + 1, good.raw.requests), "k1"),
          [good EXCEPT !.raw.requests = <<Req("A", "T1", 1, "Mint")>>],
          SignedTx(Raw(CHAIN_ID, TX_CYCLE_LIMIT, <<TransferReq("A", None, "T1", 1)>>), "k1"),
          [good EXCEPT !.signature = Sign(good.tx_hash, "k2")] }

TxInputs == ValidTxs \cup InvalidTxs

\* -------------------------------------------------------------- state
VARIABLES
    tx_map,            \* MemPoolImpl.tx_map: tx_hash -> SignedTransaction
    state,             \* Consensus.state: next_number, prev_hash, state_root
    clock,             \* the wall clock read by time_now(), in ms
    block_tree,        \* chain store, BLOCK_TREE: header hash -> Block
    latest_header,     \* chain store, LATEST_HEADER_KEY: Option<Header>
    number_hash_tree,  \* chain store, NUMBER_HASH_TREE: number -> header hash
    tx_tree,           \* chain store, TX_TREE: tx_hash -> SignedTransaction
    si,                \* save_block: index of the next transaction it writes
    pc,                \* where the block producer is
    block,             \* the block built at this tick
    state_trie,        \* exec's state_trie: address -> Account
    block_exec_cache,  \* Executor.block_exec_cache
    tx_exec_cache,     \* Executor.tx_exec_cache
    log_cache,         \* Executor.log_cache
    resp_list,         \* exec's resp_list
    resp,              \* the BlockExecuteResponse exec returned
    ti,                \* index of the transaction inner_exec is running
    ri,                \* index of the request inner_exec is at
    written,           \* history: (address, token_id) -> the balance left by the
                       \* latest successful transaction of this block that
                       \* named the pair in a request
    flush_lock,        \* MemPoolImpl.flush_lock: readers holding it, writer or not
    ins,               \* per client thread: the insert call it is in
    pk,                \* the thread calling package and remove: the call it is in
    live,              \* history: the tx_hashes whose insert was accepted and
                       \* that were not passed to remove since
    store_leaves,      \* layer3 Store: the leaves of the channel tree
    overlay_leaves,    \* layer3 MemStore.overlay.leaves of the running exec
    transactions,      \* layer3 exec: the transactions it was given
    receipts,          \* layer3 exec: the receipts pushed so far
    exec_receipt,      \* layer3: the receipt produce_block returned
    tip_number,        \* layer3 chain: the number of the tip block
    packaged,          \* layer3 produce_block: the transactions it packaged
    consensus_receipt, \* layer3: the ConsensusReceipt produce_block returned
    channel_chain,     \* layer3 Store, the chain's keys: tip, blocks by hash,
                       \* hashes by number, transactions and receipts by hash
    channel_pool,      \* layer3 ChannelMap.map: sender -> its transactions
    pool_call,         \* layer3 mempool: the call that holds the map's lock
    oracle_store,      \* layer3 Store, the oracle's keys: key -> value
    oracle_call,       \* history: the latest call that wrote the oracle's keys
    smt_call,          \* history: the latest update made on a tree directly
    exec_call,         \* history: the calls of exec made on one Executor
    cpc                \* where the channel producer is

vars == <<tx_map, state, clock, block_tree, latest_header, number_hash_tree,
          tx_tree, si, pc, block, state_trie, block_exec_cache, tx_exec_cache,
          log_cache, resp_list, resp, ti, ri, written,
          flush_lock, ins, pk, live,
          store_leaves, overlay_leaves, transactions, receipts, exec_receipt,
          tip_number, packaged, consensus_receipt, channel_chain, cpc,
          channel_pool, pool_call, oracle_store, oracle_call, smt_call,
          exec_call>>

mempool_vars == <<tx_map>>
consensus_vars == <<state, clock, block>>
chain_vars == <<block_tree, latest_header, number_hash_tree, tx_tree, si>>
executor_vars == <<state_trie, block_exec_cache, tx_exec_cache, log_cache,
                   resp_list, resp, ti, ri>>
history_vars == <<written>>
pool_call_vars == <<flush_lock, ins, pk, live>>
channel_vars == <<store_leaves, overlay_leaves, transactions, receipts,
                  exec_receipt, tip_number, packaged, consensus_receipt,
                  channel_chain, cpc>>
channel_pool_vars == <<channel_pool, pool_call>>
\* the components that are also driven directly: the oracle, the tree, one
\* Executor
direct_vars == <<oracle_store, oracle_call, smt_call, exec_call>>

\* ------------------------------------------------------------ mempool
\* Secp256k1Signature::verify(tx_hash, pub_key)
verify_signature(stx) ==
    stx.signature.msg = stx.tx_hash /\ stx.signature.signer = stx.pub_key

\* a variant of verify_tx without the comparison of the hash of raw with
\* tx_hash
verify_tx_no_hash_check(stx) ==
    IF chain_id(stx) # CHAIN_ID THEN "Invalid chain id"
    ELSE IF cycle_limit(stx) > TX_CYCLE_LIMIT THEN "Exceed tx cycle limit"
    ELSE IF \E i \in 1..Len(stx.raw.requests) :
                /\ stx.raw.requests[i].action = "Transfer"
                /\ stx.raw.requests[i].to = None
         THEN "Invalid transfer request"
    ELSE IF ~verify_signature(stx) THEN "Verify signature failed"
    ELSE "ok"

\* MemPoolImpl::verify_tx: "ok", or the error of the first check that fails
verify_tx(stx) ==
    IF chain_id(stx) # CHAIN_ID THEN "Invalid chain id"
    ELSE IF cycle_limit(stx) > TX_CYCLE_LIMIT THEN "Exceed tx cycle limit"
    ELSE IF Digest(stx.raw) # stx.tx_hash THEN "Tx hash diff"
    ELSE IF \E i \in 1..Len(stx.raw.requests) :
                /\ stx.raw.requests[i].action = "Transfer"
                /\ stx.raw.requests[i].to = None
         THEN "Invalid transfer request"
    ELSE IF ~verify_signature(stx) THEN "Verify signature failed"
    ELSE "ok"

\* the orders in which tx_map.iter() may visit the pool: the concurrent map
\* fixes none
IterOrders(m) ==
    LET n == Cardinality(DOMAIN m)
    IN  { [i \in 1..n |-> m[f[i]]] :
            f \in { g \in [1..n -> DOMAIN m] :
                      \A i, j \in 1..n : i # j => g[i] # g[j] } }

RECURSIVE take_while_cycles(_, _, _)
\* the take_while closure of package: entries are kept while the running
\* sum stays within total_limit; the first entry that does not fit ends it
take_while_cycles(entries, total_limit, sum_cycle) ==
    IF entries = <<>> THEN <<>>
    ELSE LET tx_limit == cycle_limit(Head(entries))
         IN  IF total_limit >= sum_cycle + tx_limit
             THEN <<Head(entries)>> \o
                  take_while_cycles(Tail(entries), total_limit, sum_cycle + tx_limit)
             ELSE <<>>

\* MemPoolImpl::package over one iteration order of the pool
package(entries, total_limit) == take_while_cycles(entries, total_limit, 0)

\* the client threads that call insert (RPC handlers run concurrently)
Clients == {"c1", "c2"}

\* the transactions of the pool's own state machine: cycle limits 10, 25
\* and 10, and the transactions admission must refuse
PT1 == SignedTx(Raw(CHAIN_ID, 10, <<Req("A", "T1", 2, "Mint")>>), "k1")
PT2 == SignedTx(Raw(CHAIN_ID, 25, <<Req("A", "T1", 1, "Lock")>>), "k1")
PT3 == SignedTx(Raw(CHAIN_ID, 10, <<Req("A", "T2", 1, "Mint")>>), "k1")
PoolValidTxs == {PT1, PT2, PT3}
PoolInputs == PoolValidTxs \cup InvalidTxs

\* the cycle limits package is called with: one that cuts, one no pool of
\* the model reaches
Budgets == {30, CYCLE_LIMIT}

\* the arguments remove is called with: present and absent hashes
AbsentHash == Digest(Raw(CHAIN_ID, 1, <<>>))
RemoveArgs ==
    { <<PT1.tx_hash>>, <<PT2.tx_hash, PT3.tx_hash>>,
      <<AbsentHash>>, <<PT1.tx_hash, AbsentHash>> }

\* a variant of can_read that grants read() while a writer holds the lock
can_read_always(lock) == TRUE

\* std::sync::RwLock<()>: read() is granted while no writer holds the lock,
\* write() while nobody holds it
can_read(lock) == ~lock.writer
can_write(lock) == ~lock.writer /\ lock.readers = 0

\* variants of pool_insert and pool_remove that leave the map as it is
pool_insert_lost(m, stx) == m
pool_remove_none(m, hash) == m

\* DashMap::insert / DashMap::remove
pool_insert(m, stx) == Put(m, stx.tx_hash, stx)
pool_remove(m, hash) == [h \in (DOMAIN m) \ {hash} |-> m[h]]

\* tx_map.iter(): the map is walked in the order of its slots; `order` is
\* the slot order of the keys, cursor the slot the iterator has passed.
\* The next entry is the first key after the cursor that is in the map now
\* (0: the iterator is exhausted)
iter_next(order, cursor, m) ==
    LET later == {i \in (cursor + 1)..Len(order) : order[i] \in DOMAIN m}
    IN  IF later = {} THEN 0 ELSE CHOOSE i \in later : \A j \in later : i <= j

\* the slot orders of the keys the pool's state machine uses
SlotOrders ==
    LET keys == {t.tx_hash : t \in PoolValidTxs}
        n == Cardinality(keys)
    IN  { f \in [1..n -> keys] : \A i, j \in 1..n : i # j => f[i] # f[j] }

\* a variant of fits that keeps every entry
fits_any(total_limit, sum_cycle, tx_limit) == TRUE

\* the take_while closure of package, one entry
fits(total_limit, sum_cycle, tx_limit) == total_limit >= sum_cycle + tx_limit

IdleInsert == [pc |-> "idle", stx |-> None, ret |-> "none"]
IdlePk ==
    [pc |-> "idle", done |-> "none", limit |-> 0, order |-> <<>>, cursor |-> 0,
     acc |-> <<>>, sum_cycle |-> 0, stopped |-> FALSE, snapshot |-> EmptyMap,
     live0 |-> {}, hashes |-> <<>>, todo |-> <<>>]

\* --------------------------------------------------------------- trie
\* PatriciaTrie::root(): the digest of the trie's contents
TrieRoot(t) == [root |-> t]

\* Executor::trie: the zero root opens an empty trie, any other root the
\* trie it was computed from
trie(root) == IF root = ZeroHash THEN EmptyMap ELSE root.root

\* Executor::get_account
get_account(st, addr) ==
    IF addr \in DOMAIN st THEN st[addr]
    ELSE [address |-> addr, balance_root |-> ZeroHash]

\* Executor::get_balance
get_balance(balance_trie, token_id) ==
    IF token_id \in DOMAIN balance_trie THEN balance_trie[token_id]
    ELSE DefaultBalance

\* the balance of (addr, token_id) in the state with root `root`
BalanceAt(root, addr, token_id) ==
    get_balance(trie(get_account(trie(root), addr).balance_root), token_id)

\* ----------------------------------------------------------- executor
\* a variant of ExecuteError that numbers the variants from one
ExecuteError_from_one(e) ==
    [error_code |-> CASE e = "ActiveAmountLessThanLock" -> 1
                      [] e = "LockedAmountLessThanUnlock" -> 2
                      [] e = "ActiveAmountLessThanDivert" -> 3,
     error_message |-> e]

\* From<TransactionError> for ExecuteError: the code is the variant's index
ExecuteError(e) ==
    [error_code |-> CASE e = "ActiveAmountLessThanLock" -> 0
                      [] e = "LockedAmountLessThanUnlock" -> 1
                      [] e = "ActiveAmountLessThanDivert" -> 2,
     error_message |-> e]

\* Log::new(addr_str, gen_log(flow, amount))
Log(address, flow, amount) == [name |-> address, data |-> <<flow, amount>>]

\* gen_resp + rlp::encode
gen_resp(tx_hash) == <<"tx", tx_hash, "success">>

\* Executor::clear_tx_cache
clear_tx_cache(cache) == EmptyMap

\* U256 `+=` and `-=`: both panic when the result leaves 0..U256_MAX
add_overflows(a, b) == a + b > U256_MAX
sub_underflows(a, b) == a < b

\* the outcomes of one match arm of inner_exec
Applied(cache, logs) == [outcome |-> "ok", cache |-> cache, logs |-> logs]
Failed(e, cache) == [outcome |-> e, cache |-> clear_tx_cache(cache), logs |-> <<>>]
Panicked(why, cache) == [outcome |-> why, cache |-> cache, logs |-> <<>>]

\* inner_exec, the head of the request loop: the entry of
\* (address, token_id) is created in tx_exec_cache if it is missing, and is
\* (re)loaded from the trie whenever it is_uninitialized
load_record(cache, st, address, token_id) ==
    LET record == get_balance(trie(get_account(st, address).balance_root), token_id)
        inner == IF address \in DOMAIN cache THEN cache[address] ELSE EmptyMap
        rec == IF token_id \in DOMAIN inner THEN inner[token_id] ELSE DefaultBalance
    IN  Put(cache, address,
            Put(inner, token_id, IF is_uninitialized(rec) THEN record ELSE rec))

set_rec(cache, address, token_id, rec) ==
    [cache EXCEPT ![address] = [@ EXCEPT ![token_id] = rec]]

\* TokenAction::Mint
apply_mint(cache, req) ==
    LET rec == cache[req.address][req.token_id]
    IN  IF add_overflows(rec.active, req.amount) THEN Panicked("panic_add", cache)
        ELSE Applied(set_rec(cache, req.address, req.token_id,
                             [rec EXCEPT !.active = rec.active + req.amount]),
                     <<Log(req.address, "active add", req.amount)>>)

\* a variant of Lock without the check of active against amount
apply_lock_unguarded(cache, req) ==
    LET rec == cache[req.address][req.token_id]
    IN  IF sub_underflows(rec.active, req.amount) THEN Panicked("panic_sub", cache)
        ELSE IF add_overflows(rec.locked, req.amount) THEN Panicked("panic_add", cache)
        ELSE Applied(set_rec(cache, req.address, req.token_id,
                             [locked |-> rec.locked + req.amount,
                              active |-> rec.active - req.amount]),
                     <<Log(req.address, "active to lock", req.amount)>>)

\* TokenAction::Lock
apply_lock(cache, req) ==
    LET rec == cache[req.address][req.token_id]
    IN  IF rec.active < req.amount THEN Failed("ActiveAmountLessThanLock", cache)
        ELSE IF sub_underflows(rec.active, req.amount) THEN Panicked("panic_sub", cache)
        ELSE IF add_overflows(rec.locked, req.amount) THEN Panicked("panic_add", cache)
        ELSE Applied(set_rec(cache, req.address, req.token_id,
                             [locked |-> rec.locked + req.amount,
                              active |-> rec.active - req.amount]),
                     <<Log(req.address, "active to lock", req.amount)>>)

\* a variant of Unlock that credits active and leaves locked as it was
apply_unlock_keeps_locked(cache, req) ==
    LET rec == cache[req.address][req.token_id]
    IN  IF rec.locked < req.amount THEN Failed("LockedAmountLessThanUnlock", cache)
        ELSE IF add_overflows(rec.active, req.amount) THEN Panicked("panic_add", cache)
        ELSE Applied(set_rec(cache, req.address, req.token_id,
                             [rec EXCEPT !.active = rec.active + req.amount]),
                     <<Log(req.address, "lock to active", req.amount)>>)

\* TokenAction::Unlock
apply_unlock(cache, req) ==
    LET rec == cache[req.address][req.token_id]
    IN  IF rec.locked < req.amount THEN Failed("LockedAmountLessThanUnlock", cache)
        ELSE IF sub_underflows(rec.locked, req.amount) THEN Panicked("panic_sub", cache)
        ELSE IF add_overflows(rec.active, req.amount) THEN Panicked("panic_add", cache)
        ELSE Applied(set_rec(cache, req.address, req.token_id,
                             [locked |-> rec.locked - req.amount,
                              active |-> rec.active + req.amount]),
                     <<Log(req.address, "lock to active", req.amount)>>)

\* TokenAction::Divert
apply_divert(cache, req) ==
    LET rec == cache[req.address][req.token_id]
    IN  IF rec.active < req.amount THEN Failed("ActiveAmountLessThanDivert", cache)
        ELSE IF sub_underflows(rec.active, req.amount) THEN Panicked("panic_sub", cache)
        ELSE Applied(set_rec(cache, req.address, req.token_id,
                             [rec EXCEPT !.active = rec.active - req.amount]),
                     <<Log(req.address, "active reduce", req.amount)>>)

\* TokenAction::Transfer: the recipient's entry is loaded like the sender's,
\* then amount moves from the sender's active to the recipient's; no log
apply_transfer(cache, req, st) ==
    LET to == req.to[1]
        loaded == load_record(cache, st, to, req.token_id)
        rec == loaded[req.address][req.token_id]
    IN  IF rec.active < req.amount THEN Failed("ActiveAmountLessThanDivert", loaded)
        ELSE IF sub_underflows(rec.active, req.amount) THEN Panicked("panic_sub", loaded)
        ELSE LET debited == set_rec(loaded, req.address, req.token_id,
                                    [rec EXCEPT !.active = rec.active - req.amount])
                 to_rec == debited[to][req.token_id]
             IN  IF add_overflows(to_rec.active, req.amount)
                 THEN Panicked("panic_add", debited)
                 ELSE Applied(set_rec(debited, to, req.token_id,
                                      [to_rec EXCEPT !.active = to_rec.active + req.amount]),
                              <<>>)

\* inner_exec, `match req.action`
apply_action(cache, req, st) ==
    CASE req.action = "Mint" -> apply_mint(cache, req)
      [] req.action = "Lock" -> apply_lock(cache, req)
      [] req.action = "Unlock" -> apply_unlock(cache, req)
      [] req.action = "Divert" -> apply_divert(cache, req)
      [] req.action = "Transfer" -> apply_transfer(cache, req, st)

\* inner_exec, after the request loop: every address of tx_exec_cache is
\* inserted into block_exec_cache with its whole token map
merge_tx_cache(block_cache, tx_cache) ==
    [a \in (DOMAIN block_cache) \cup (DOMAIN tx_cache) |->
        IF a \in DOMAIN tx_cache THEN tx_cache[a] ELSE block_cache[a]]

\* Executor::commit_cache: the account of every cached address gets the
\* cached balances inserted into its balance trie and its new balance_root
commit_cache(block_cache, st) ==
    [a \in (DOMAIN st) \cup (DOMAIN block_cache) |->
        IF a \in DOMAIN block_cache
        THEN LET account == get_account(st, a)
                 balance_trie == trie(account.balance_root)
                 cache == block_cache[a]
                 inserted == [t \in (DOMAIN balance_trie) \cup (DOMAIN cache) |->
                                 IF t \in DOMAIN cache THEN cache[t] ELSE balance_trie[t]]
             IN  [account EXCEPT !.balance_root = TrieRoot(inserted)]
        ELSE st[a]]

\* the two responses inner_exec's callers push
ok_response(stx) ==
    [tx_hash |-> stx.tx_hash, ret |-> gen_resp(stx.tx_hash), error |-> None]
err_response(stx, e) ==
    [tx_hash |-> stx.tx_hash, ret |-> <<>>, error |-> Some(ExecuteError(e))]

RECURSIVE inner_exec(_, _, _, _)
\* Executor::inner_exec from request i on, as a function of the cache it
\* finds: the outcome ("ok", the TransactionError, or the panic) and the
\* tx_exec_cache it leaves
inner_exec(stx, i, cache, st) ==
    IF i > Len(stx.raw.requests) THEN [outcome |-> "ok", cache |-> cache]
    ELSE LET req == stx.raw.requests[i]
             r == apply_action(load_record(cache, st, req.address, req.token_id), req, st)
         IN  IF r.outcome = "ok" THEN inner_exec(stx, i + 1, r.cache, st)
             ELSE [outcome |-> r.outcome, cache |-> r.cache]

RECURSIVE exec_from(_, _, _, _, _, _)
\* Executor::exec from transaction i on
exec_from(txs, i, tx_cache, block_cache, st, resps) ==
    IF i > Len(txs)
    THEN [outcome |-> "ok",
          state_root |-> TrieRoot(commit_cache(block_cache, st)),
          inner |-> resps]
    ELSE LET r == inner_exec(txs[i], 1, tx_cache, st)
         IN  IF r.outcome = "ok"
             THEN exec_from(txs, i + 1, r.cache, merge_tx_cache(block_cache, r.cache), st,
                            Append(resps, ok_response(txs[i])))
             ELSE IF r.outcome \in {"panic_add", "panic_sub"}
             THEN [outcome |-> r.outcome, state_root |-> ZeroHash, inner |-> resps]
             ELSE exec_from(txs, i + 1, r.cache, block_cache, st,
                            Append(resps, err_response(txs[i], r.outcome)))

RECURSIVE exec_caches_from(_, _, _, _, _)
\* Executor::exec from transaction i on: the caches the Executor is left with
exec_caches_from(txs, i, tx_cache, block_cache, st) ==
    IF i > Len(txs) THEN [tx_cache |-> tx_cache, block_cache |-> block_cache]
    ELSE LET r == inner_exec(txs[i], 1, tx_cache, st)
         IN  IF r.outcome = "ok"
             THEN exec_caches_from(txs, i + 1, r.cache, merge_tx_cache(block_cache, r.cache), st)
             ELSE IF r.outcome \in {"panic_add", "panic_sub"}
             THEN [tx_cache |-> r.cache, block_cache |-> block_cache]
             ELSE exec_caches_from(txs, i + 1, r.cache, block_cache, st)

\* no exec was called on the Executor
NoExecCall == [n |-> 0, state_root |-> ZeroHash, txs |-> <<>>]

\* Executor::exec on a fresh executor, as a function of its arguments
exec(state_root, txs) ==
    exec_from(txs, 1, EmptyMap, EmptyMap, trie(state_root), <<>>)

\* ---------------------------------------------------------- consensus
\* Merkle::from_hashes(..).get_root_hash().unwrap_or_default()
merkle_root(hashes) == IF hashes = <<>> THEN ZeroHash ELSE Digest(hashes)

\* a variant of build_block that leaves prev_hash at the zero hash
build_block_no_prev(txs, now) ==
    [header |-> [chain_id |-> CHAIN_ID,
                 number |-> state.next_number,
                 prev_hash |-> ZeroHash,
                 timestamp |-> now,
                 transaction_root |-> merkle_root([i \in 1..Len(txs) |-> txs[i].tx_hash]),
                 state_root |-> state.state_root,
                 cycles_limit |-> CYCLE_LIMIT,
                 proposer |-> "A"],
     txs |-> txs]

\* Consensus::build_block
build_block(txs, now) ==
    [header |-> [chain_id |-> CHAIN_ID,
                 number |-> state.next_number,
                 prev_hash |-> state.prev_hash,
                 timestamp |-> now,
                 transaction_root |-> merkle_root([i \in 1..Len(txs) |-> txs[i].tx_hash]),
                 state_root |-> state.state_root,
                 cycles_limit |-> CYCLE_LIMIT,
                 proposer |-> "A"],
     txs |-> txs]

\* Block::header_hash
header_hash(b) == Digest(b.header)

\* -------------------------------------------------------- chain store
\* The store holds RLP bytes.  An RLP list is modelled as the sequence of
\* its items: a derived encoder writes the fields of the struct in the
\* order of their declaration, a derived decoder reads them back by
\* position.
ActionIndex ==
    [Mint |-> 0, Lock |-> 1, Unlock |-> 2, Divert |-> 3, Transfer |-> 4]

\* Encodable / Decodable for TokenAction: a list of one u8
rlp_action(action) == <<ActionIndex[action]>>
decode_action(raw) == CHOOSE a \in DOMAIN ActionIndex : ActionIndex[a] = raw[1]

rlp_request(req) ==
    <<req.address, req.token_id, req.amount, rlp_action(req.action), req.to>>
decode_request(raw) ==
    [address |-> raw[1], token_id |-> raw[2], amount |-> raw[3],
     action |-> decode_action(raw[4]), to |-> raw[5]]

rlp_raw(raw) ==
    <<raw.chain_id, raw.cycles_limit,
      [i \in 1..Len(raw.requests) |-> rlp_request(raw.requests[i])]>>
decode_raw(raw) ==
    [chain_id |-> raw[1], cycles_limit |-> raw[2],
     requests |-> [i \in 1..Len(raw[3]) |-> decode_request(raw[3][i])]]

rlp_stx(stx) == <<rlp_raw(stx.raw), stx.tx_hash, stx.pub_key, stx.signature>>
decode_stx(raw) ==
    [raw |-> decode_raw(raw[1]), tx_hash |-> raw[2], pub_key |-> raw[3],
     signature |-> raw[4]]

rlp_header(h) ==
    <<h.chain_id, h.number, h.prev_hash, h.timestamp, h.transaction_root,
      h.state_root, h.cycles_limit, h.proposer>>

\* a variant of decode_header that reads number and cycles_limit from each
\* other's position
decode_header_swapped(raw) ==
    [chain_id |-> raw[1], number |-> raw[7], prev_hash |-> raw[3],
     timestamp |-> raw[4], transaction_root |-> raw[5], state_root |-> raw[6],
     cycles_limit |-> raw[2], proposer |-> raw[8]]

decode_header(raw) ==
    [chain_id |-> raw[1], number |-> raw[2], prev_hash |-> raw[3],
     timestamp |-> raw[4], transaction_root |-> raw[5], state_root |-> raw[6],
     cycles_limit |-> raw[7], proposer |-> raw[8]]

rlp_block(b) ==
    <<rlp_header(b.header), [i \in 1..Len(b.txs) |-> rlp_stx(b.txs[i])]>>
decode_block(raw) ==
    [header |-> decode_header(raw[1]),
     txs |-> [i \in 1..Len(raw[2]) |-> decode_stx(raw[2][i])]]

RECURSIVE to_little_endian(_, _)
\* U64::to_little_endian into a buffer of n bytes
to_little_endian(input, n) ==
    IF n = 0 THEN <<>> ELSE <<input % 256>> \o to_little_endian(input \div 256, n - 1)

\* u64_le_bytes: the eight bytes of the number, lowest first
u64_le_bytes(input) == to_little_endian(input, 8)

\* CovalentChain::get_block_by_hash
get_block_by_hash(hash) ==
    IF hash \in DOMAIN block_tree THEN Some(decode_block(block_tree[hash])) ELSE None

\* CovalentChain::get_block_by_number
get_block_by_number(number) ==
    IF u64_le_bytes(number) \in DOMAIN number_hash_tree
    THEN get_block_by_hash(number_hash_tree[u64_le_bytes(number)])
    ELSE None

\* CovalentChain::get_tx_by_hash
get_tx_by_hash(hash) ==
    IF hash \in DOMAIN tx_tree THEN Some(decode_stx(tx_tree[hash])) ELSE None

\* CovalentChain::get_latest_block: the value under LATEST_HEADER_KEY is
\* unwrapped, which panics when there is none
get_latest_block ==
    IF latest_header = None THEN [outcome |-> "panic"]
    ELSE [outcome |-> "ok", value |-> decode_header(latest_header[1])]

\* ---------------------------------------------------------------- rpc
\* RpcImpl::get_balance: the balance at the state_root of the latest header
rpc_get_balance(address, token_id) ==
    LET header == get_latest_block
    IN  IF header.outcome # "ok" THEN header
        ELSE [outcome |-> "ok",
              value |-> BalanceAt(header.value.state_root, address, token_id)]

\* ------------------------------------------------------- channel tier
\* layer3: the channel executor over the sparse Merkle tree of channels.
\* executor.rs reads args.challenge_blocks, a field types.rs has commented
\* out; the model follows executor.rs.
ChannelIds == {2077, 2078}
Participants == <<"alice", "bob">>
Signers == {"alice", "bob", "mallory"}
ChallengeBlocks == 10

\* types.rs Balance::new
Balance(settled) == [settled |-> settled]

\* main.rs test_token(1)
TestToken == [id |-> 1, symbol |-> "test token 1", decimal |-> 18]
\* Token::default()
DefaultToken == [id |-> 0, symbol |-> "", decimal |-> 0]

\* Channel::default(), which is Value::zero() of the tree: the value of
\* every key that has no leaf
ZeroChannel ==
    [id |-> 0, token |-> DefaultToken, challenge_blocks |-> 0,
     participant2 |-> <<"0x0", "0x0">>, state |-> "NonExists", version |-> 0,
     total_balance |-> 0, balance2 |-> <<Balance(0), Balance(0)>>]

\* Channel::exists
exists(channel) == channel.state # "NonExists"

\* UpdateChannel::sig_msg and CloseChannel::sig_msg: the hash of the args
\* with the signatures left at their default
update_sig_msg(channel_id, version, balance2) ==
    <<"UpdateChannel", channel_id, version, balance2>>
close_sig_msg(channel_id, version) == <<"CloseChannel", channel_id, version>>

\* a recoverable signature: who signed, the message signed, and its length
\* in bytes (r, s and the recovery byte)
Sig(signer, msg) == [signer |-> signer, msg |-> msg, len |-> 65]
\* the same without its recovery byte
ShortSig(signer, msg) == [signer |-> signer, msg |-> msg, len |-> 64]

\* the signature pairs the inputs carry: both participants, one participant
\* twice, and one signature by a stranger
SignaturePairs(msg) ==
    {<<Sig("alice", msg), Sig("bob", msg)>>,
     <<Sig("alice", msg), Sig("alice", msg)>>,
     <<Sig("alice", msg), Sig("mallory", msg)>>}

CreateChannel(id, balance2) ==
    [kind |-> "CreateChannel", id |-> id, token |-> TestToken,
     challenge_blocks |-> ChallengeBlocks, participant2 |-> Participants,
     balance2 |-> balance2]
UpdateChannel(channel_id, version, balance2, signature2) ==
    [kind |-> "UpdateChannel", channel_id |-> channel_id, version |-> version,
     balance2 |-> balance2, signature2 |-> signature2]
CloseChannel(channel_id, version, signature2) ==
    [kind |-> "CloseChannel", channel_id |-> channel_id, version |-> version,
     signature2 |-> signature2]

\* the second channel is only created and updated once; the first carries
\* every case
CreateInputs ==
    {CreateChannel(2077, <<Balance(2), Balance(0)>>),
     CreateChannel(2077, <<Balance(1), Balance(2)>>),
     CreateChannel(2078, <<Balance(2), Balance(0)>>)}
\* updates to (1, 1) of every version signed by both participants, and of
\* version 1 also signed by one participant twice, by a stranger, and by bob
\* over the same update with other balances
UpdateInputs ==
    LET b == <<Balance(1), Balance(1)>>
        msg(id, v) == update_sig_msg(id, v, b)
    IN  {UpdateChannel(2077, v, b, <<Sig("alice", msg(2077, v)), Sig("bob", msg(2077, v))>>) :
            v \in 1..MaxVersion}
        \cup {UpdateChannel(2077, 1, b, s) : s \in SignaturePairs(msg(2077, 1))}
        \cup {UpdateChannel(2077, 1, b,
                 <<Sig("alice", msg(2077, 1)),
                   Sig("bob", update_sig_msg(2077, 1, <<Balance(0), Balance(2)>>))>>),
              UpdateChannel(2078, 1, b,
                 <<Sig("alice", msg(2078, 1)), Sig("bob", msg(2078, 1))>>)}
\* closes of every version signed by both participants, and of the largest
\* version also with a stranger's signature and with bob's cut to 64 bytes
CloseInputs ==
    LET msg(v) == close_sig_msg(2077, v)
    IN  {CloseChannel(2077, v, <<Sig("alice", msg(v)), Sig("bob", msg(v))>>) :
            v \in 1..MaxVersion}
        \cup {CloseChannel(2077, MaxVersion,
                 <<Sig("alice", msg(MaxVersion)), Sig("mallory", msg(MaxVersion))>>),
              CloseChannel(2077, MaxVersion,
                 <<Sig("alice", msg(MaxVersion)), ShortSig("bob", msg(MaxVersion))>>)}
ChannelTxInputs == CreateInputs \cup UpdateInputs \cup CloseInputs

\* secp.recover_ecdsa and the Keccak address of the key: the signer when the
\* signature is over this message, some other key's address when it is not
recover(msg, sig) == IF sig.msg = msg THEN sig.signer ELSE "unknown"

\* a verify_signature2 that looks at the first signature only
verify_signature2_first_only(msg, participant2, sig2) ==
    /\ sig2[1].len = 65
    /\ \E j \in 1..2 : participant2[j] = recover(msg, sig2[1])

\* verify_signature2: every signature is 65 bytes long and recovers to one
\* of the participants
verify_signature2(msg, participant2, sig2) ==
    \A i \in 1..2 :
        /\ sig2[i].len = 65
        /\ \E j \in 1..2 : participant2[j] = recover(msg, sig2[i])

\* a get that reads the store only, blind to the leaves this block wrote
smt_get_store_only(store, overlay, key) ==
    IF key \in DOMAIN store THEN store[key] ELSE ZeroChannel

\* SparseMerkleTree::get over MemStore: the overlay's leaf, else the
\* store's leaf, else the zero value
smt_get(store, overlay, key) ==
    IF key \in DOMAIN overlay THEN overlay[key]
    ELSE IF key \in DOMAIN store THEN store[key]
    ELSE ZeroChannel

\* Hash::hash of a serialized value: blake2b, taken as collision-free
channel_hash(v) == [blake2b |-> v]

\* impl Value for Channel, to_h256: the channel's hash
channel_to_h256(value) == channel_hash(value)

\* no update was made on a tree directly
NoSmtCall == [on |-> "none", key |-> 0, value |-> ZeroChannel]

\* an update that keeps the leaf a key already has
smt_update_first_write_wins(overlay, key, value) ==
    IF key \in DOMAIN overlay THEN overlay ELSE Put(overlay, key, value)

\* SparseMerkleTree::update: the leaf goes to the leaves the tree writes to
\* (the overlay of a MemStore, the store otherwise); a value whose to_h256
\* is the zero digest removes the leaf there instead
smt_update(overlay, key, value) ==
    IF channel_to_h256(value) = ZeroHash
    THEN [k \in (DOMAIN overlay) \ {key} |-> overlay[k]]
    ELSE Put(overlay, key, value)

\* the leaves the tree holds: the store's, shadowed by the overlay's
smt_leaves(store, overlay) ==
    [k \in (DOMAIN store) \cup (DOMAIN overlay) |->
        IF k \in DOMAIN overlay THEN overlay[k] ELSE store[k]]

\* SparseMerkleTree::root: zero for the empty tree, else a collision-free
\* function of the leaves
smt_root(store, overlay) ==
    IF smt_leaves(store, overlay) = EmptyMap THEN ZeroHash
    ELSE [smt |-> smt_leaves(store, overlay)]

\* TransactionReceipt::success and TransactionReceipt::err_res
receipt_success(state_root) == [exit_code |-> "Success", state_root |-> state_root]
\* an err_res that carries the root of the empty-keyed tree instead of zero
err_res_with_root(exit_code) ==
    [exit_code |-> exit_code, state_root |-> [smt |-> EmptyMap]]

err_res(exit_code) == [exit_code |-> exit_code, state_root |-> ZeroHash]

\* create_channel: the receipt and the overlay it leaves
create_channel(store, overlay, args) ==
    IF exists(smt_get(store, overlay, args.id))
    THEN [receipt |-> err_res("ErrorChannelExists"), overlay |-> overlay]
    ELSE LET total_balance == args.balance2[1].settled + args.balance2[2].settled
             channel == [id |-> args.id, token |-> args.token,
                         challenge_blocks |-> args.challenge_blocks,
                         participant2 |-> args.participant2,
                         state |-> "Open", version |-> 0,
                         total_balance |-> total_balance,
                         balance2 |-> args.balance2]
             updated == smt_update(overlay, args.id, channel)
         IN  [receipt |-> receipt_success(smt_root(store, updated)),
              overlay |-> updated]

\* an update_channel without the version check
update_channel_any_version(store, overlay, args) ==
    LET channel == smt_get(store, overlay, args.channel_id)
        sig_msg == update_sig_msg(args.channel_id, args.version, args.balance2)
    IN  IF ~exists(channel)
        THEN [receipt |-> err_res("ErrorChannelNotFound"), overlay |-> overlay]
        ELSE IF ~verify_signature2(sig_msg, channel.participant2, args.signature2)
        THEN [receipt |-> err_res("ErrorUpdateChannelSignature"), overlay |-> overlay]
        ELSE LET updated == smt_update(overlay, channel.id,
                               [channel EXCEPT !.version = args.version,
                                               !.balance2 = args.balance2])
             IN  [receipt |-> receipt_success(smt_root(store, updated)),
                  overlay |-> updated]

\* update_channel
update_channel(store, overlay, args) ==
    LET channel == smt_get(store, overlay, args.channel_id)
        sig_msg == update_sig_msg(args.channel_id, args.version, args.balance2)
    IN  IF ~exists(channel)
        THEN [receipt |-> err_res("ErrorChannelNotFound"), overlay |-> overlay]
        ELSE IF args.version <= channel.version
        THEN [receipt |-> err_res("ErrorRollbackChannelVersion"), overlay |-> overlay]
        ELSE IF ~verify_signature2(sig_msg, channel.participant2, args.signature2)
        THEN [receipt |-> err_res("ErrorUpdateChannelSignature"), overlay |-> overlay]
        ELSE LET updated == smt_update(overlay, channel.id,
                               [channel EXCEPT !.version = args.version,
                                               !.balance2 = args.balance2])
             IN  [receipt |-> receipt_success(smt_root(store, updated)),
                  overlay |-> updated]

\* a close_channel that also settles the balances to zero
close_channel_zero_balances(store, overlay, args) ==
    LET channel == smt_get(store, overlay, args.channel_id)
        sig_msg == close_sig_msg(args.channel_id, args.version)
    IN  IF ~exists(channel)
        THEN [receipt |-> err_res("ErrorChannelNotFound"), overlay |-> overlay]
        ELSE IF args.version <= channel.version
        THEN [receipt |-> err_res("ErrorRollbackChannelVersion"), overlay |-> overlay]
        ELSE IF ~verify_signature2(sig_msg, channel.participant2, args.signature2)
        THEN [receipt |-> err_res("ErrorUpdateChannelSignature"), overlay |-> overlay]
        ELSE LET updated == smt_update(overlay, channel.id,
                               [channel EXCEPT !.version = args.version,
                                               !.balance2 = <<Balance(0), Balance(0)>>])
             IN  [receipt |-> receipt_success(smt_root(store, updated)),
                  overlay |-> updated]

\* close_channel: only the version is written
close_channel(store, overlay, args) ==
    LET channel == smt_get(store, overlay, args.channel_id)
        sig_msg == close_sig_msg(args.channel_id, args.version)
    IN  IF ~exists(channel)
        THEN [receipt |-> err_res("ErrorChannelNotFound"), overlay |-> overlay]
        ELSE IF args.version <= channel.version
        THEN [receipt |-> err_res("ErrorRollbackChannelVersion"), overlay |-> overlay]
        ELSE IF ~verify_signature2(sig_msg, channel.participant2, args.signature2)
        THEN [receipt |-> err_res("ErrorUpdateChannelSignature"), overlay |-> overlay]
        ELSE LET updated == smt_update(overlay, channel.id,
                               [channel EXCEPT !.version = args.version])
             IN  [receipt |-> receipt_success(smt_root(store, updated)),
                  overlay |-> updated]

\* cbmt_merkle_root: zero for no leaves, else a collision-free function of
\* the leaves in order
cbmt_merkle_root(leaves) == IF leaves = <<>> THEN ZeroHash ELSE [cbmt |-> leaves]

\* the senders whose buckets a package draws from, in the order it met them
Senders == <<"alice", "bob">>

\* Wallet::sign_tx
sign_tx(from, raw_tx) ==
    [raw |-> raw_tx, sig |-> Sig(from, channel_hash(raw_tx)), from |-> from,
     hash |-> channel_hash(raw_tx)]

\* SignedTransaction::tx_hash
tx_hash(stx) == channel_hash(stx.raw)

\* Block::block_hash
block_hash(b) == channel_hash(b.header)

\* genesis::init: block 0, stored by hash and by number, and made the tip
GenesisBlock ==
    [header |-> [number |-> 0, parent_hash |-> ZeroHash, timestamp |-> 0,
                 state_root |-> ZeroHash, transaction_root |-> ZeroHash,
                 receipt_root |-> ZeroHash],
     txs |-> <<>>]
genesis_init ==
    [tip |-> Some(block_hash(GenesisBlock)),
     blocks |-> Put(EmptyMap, block_hash(GenesisBlock), GenesisBlock),
     block_hashes |-> Put(EmptyMap, 0, block_hash(GenesisBlock)),
     transactions |-> EmptyMap,
     transaction_receipts |-> EmptyMap]

\* ChannelChain::tip_block
tip_block(chain) == chain.blocks[chain.tip[1]]

\* Chain::get_transaction and Chain::get_transaction_receipt
get_transaction(chain, h) ==
    IF h \in DOMAIN chain.transactions THEN Some(chain.transactions[h]) ELSE None
get_transaction_receipt(chain, h) ==
    IF h \in DOMAIN chain.transaction_receipts
    THEN Some(chain.transaction_receipts[h]) ELSE None

\* a block that repeats its parent's number
next_block_same_number(tip, txs, er, now) ==
    [header |-> [number |-> tip.header.number,
                 parent_hash |-> block_hash(tip),
                 timestamp |-> now,
                 state_root |-> er.state_root,
                 transaction_root |-> cbmt_merkle_root([i \in 1..Len(txs) |-> tx_hash(txs[i])]),
                 receipt_root |-> er.receipt_root],
     txs |-> txs]

\* produce_block's next_block, from the tip, the packaged transactions, the
\* executor's receipt and the clock
next_block(tip, txs, er, now) ==
    [header |-> [number |-> tip.header.number + 1,
                 parent_hash |-> block_hash(tip),
                 timestamp |-> now,
                 state_root |-> er.state_root,
                 transaction_root |-> cbmt_merkle_root([i \in 1..Len(txs) |-> tx_hash(txs[i])]),
                 receipt_root |-> er.receipt_root],
     txs |-> txs]

\* a map after inserts of vals[i] at keys[i] for i = 1, 2, ...: a later
\* insert at a key replaces an earlier one
insert_all(m, keys, vals) ==
    [h \in (DOMAIN m) \cup {keys[i] : i \in 1..Len(keys)} |->
        IF \E i \in 1..Len(keys) : keys[i] = h
        THEN vals[CHOOSE i \in 1..Len(keys) :
                      /\ keys[i] = h
                      /\ \A j \in 1..Len(keys) : keys[j] = h => j <= i]
        ELSE m[h]]

\* apply_consensus_receipt, the chain's part: insert_block, set_tip_block,
\* insert_transactions and insert_transaction_receipts
apply_chain(chain, cr) ==
    LET b == cr.block
        hashes == [i \in 1..Len(b.txs) |-> tx_hash(b.txs[i])]
    IN  [tip |-> Some(block_hash(b)),
         blocks |-> Put(chain.blocks, block_hash(b), b),
         block_hashes |-> Put(chain.block_hashes, b.header.number, block_hash(b)),
         transactions |-> insert_all(chain.transactions, hashes, b.txs),
         transaction_receipts |->
             insert_all(chain.transaction_receipts, hashes, cr.transaction_receipts)]

\* ------------------------------------------------------ channel mempool
\* the senders and transactions the pool is fed
PoolSenders == {"alice", "bob", "carol"}
PoolRaws ==
    {CreateChannel(2077, <<Balance(2), Balance(0)>>),
     CreateChannel(2078, <<Balance(2), Balance(0)>>)}
ChannelPoolInputs == {sign_tx(from, raw) : from \in PoolSenders, raw \in PoolRaws}

\* no call holds the lock
IdlePoolCall == [op |-> "idle", out |-> <<>>, txs |-> <<>>, i |-> 0, before |-> EmptyMap]

\* the number of transactions in the map
PoolSize(map) ==
    LET RECURSIVE Sum(_)
        Sum(S) == IF S = {} THEN 0
                  ELSE LET f == CHOOSE x \in S : TRUE
                       IN  Len(map[f]) + Sum(S \ {f})
    IN  Sum(DOMAIN map)

\* push_transaction: appended to the sender's bucket, or a new bucket
push_transaction(map, tx) ==
    IF tx.from \in DOMAIN map
    THEN [map EXCEPT ![tx.from] = Append(@, tx)]
    ELSE Put(map, tx.from, <<tx>>)

\* the orders in which map.values() can yield the buckets
ValueOrders(map) ==
    {o \in [1..Cardinality(DOMAIN map) -> DOMAIN map] :
        \A i, j \in 1..Cardinality(DOMAIN map) : o[i] = o[j] => i = j}

\* a package_transactions that never looks at the capacity
package_transactions_uncapped(map, order) ==
    LET NonEmpty(f) == map[f] # <<>>
        senders == SelectSeq(order, NonEmpty)
    IN  [i \in 1..Len(senders) |-> Head(map[senders[i]])]

\* package_transactions: the first transaction of each non-empty bucket in
\* the order the map yields them, until the vector is at its capacity
package_transactions(map, order) ==
    LET NonEmpty(f) == map[f] # <<>>
        senders == SelectSeq(order, NonEmpty)
        n == IF Len(senders) < PackageCapacity THEN Len(senders) ELSE PackageCapacity
    IN  [i \in 1..n |-> Head(map[senders[i]])]

\* the map without the sender's bucket
remove_bucket(map, from) == [f \in (DOMAIN map) \ {from} |-> map[f]]

\* a reset round that takes out only the entry it found
reset_one_entry_only(map, block_tx) ==
    IF block_tx.from \notin DOMAIN map THEN map
    ELSE LET txs == map[block_tx.from]
             found == {i \in 1..Len(txs) : txs[i].hash = block_tx.hash}
         IN  IF txs = <<>> THEN remove_bucket(map, block_tx.from)
             ELSE IF found = {} THEN map
             ELSE LET idx == CHOOSE i \in found : \A j \in found : i <= j
                  IN  IF Len(txs) = 1
                      THEN remove_bucket(map, block_tx.from)
                      ELSE [map EXCEPT ![block_tx.from] =
                               SubSeq(txs, 1, idx - 1) \o SubSeq(txs, idx + 1, Len(txs))]

\* a reset round that drops the whole bucket of a sender it found
reset_one_clear_bucket(map, block_tx) ==
    IF block_tx.from \notin DOMAIN map THEN map
    ELSE IF \E i \in 1..Len(map[block_tx.from]) : map[block_tx.from][i].hash = block_tx.hash
    THEN remove_bucket(map, block_tx.from)
    ELSE map

\* one round of reset's loop, for one transaction of the block
reset_one(map, block_tx) ==
    IF block_tx.from \notin DOMAIN map THEN map
    ELSE LET txs == map[block_tx.from]
             found == {i \in 1..Len(txs) : txs[i].hash = block_tx.hash}
         IN  IF txs = <<>> THEN remove_bucket(map, block_tx.from)
             ELSE IF found = {} THEN map
             ELSE LET idx == CHOOSE i \in found : \A j \in found : i <= j
                  IN  IF idx = Len(txs)
                      THEN remove_bucket(map, block_tx.from)
                      ELSE [map EXCEPT ![block_tx.from] = SubSeq(txs, idx + 1, Len(txs))]

\* ------------------------------------------------------- oracle, settlement
\* the keys ChannelOracle keeps in the store
CONFIRMED_L3_BLOCKS == "CONFIRMED_L3_BLOCKS"
CONFIRMED_L3_WITHDRAWALS == "CONFIRMED_L3_WITHDRAWALS"
PENDING_L3_WITHDRAWALS == "PENDING_L3_WITHDRAWALS"
PENDING_CREATE_CHANNELS == "PENDING_CREATE_CHANNELS"

\* no call has written the oracle's keys yet
NoOracleCall == [op |-> "none", arg |-> <<>>]

\* Store::get(key).unwrap_or(default)
store_get_or(st, key, default) == IF key \in DOMAIN st THEN st[key] ELSE default

\* the setters of ChannelOracle
set_confirmed_l3_blocks(st, blocks) == Put(st, CONFIRMED_L3_BLOCKS, blocks)
set_confirmed_l3_withdrawals(st, channels) == Put(st, CONFIRMED_L3_WITHDRAWALS, channels)
set_pending_l3_withdrawals(st, channels) == Put(st, CONFIRMED_L3_WITHDRAWALS, channels)
set_pending_l2_create_channels(st, create_channels) ==
    Put(st, PENDING_CREATE_CHANNELS, create_channels)

\* impl Oracle for ChannelOracle
confirmed_l3_blocks(st) == store_get_or(st, CONFIRMED_L3_BLOCKS, 0)
confirmed_l3_withdrawals(st) == store_get_or(st, CONFIRMED_L3_WITHDRAWALS, <<>>)
pending_l2_create_channels(st) == store_get_or(st, PENDING_CREATE_CHANNELS, <<>>)
pending_l3_withdrawals(st) == store_get_or(st, PENDING_L3_WITHDRAWALS, <<>>)

\* Chain::get_block(NumberHash::Number(n))
get_block(chain, n) ==
    IF n \in DOMAIN chain.block_hashes /\ chain.block_hashes[n] \in DOMAIN chain.blocks
    THEN Some(chain.blocks[chain.block_hashes[n]])
    ELSE None

\* ChannelRelay::submit_l3_blocks
submit_l3_blocks(st, blocks) ==
    IF blocks # <<>>
    THEN set_confirmed_l3_blocks(st, blocks[Len(blocks)].header.number)
    ELSE st

\* a submit_block that hands the relay the tip block
submit_block_tip(chain, st) ==
    LET next == get_block(chain, confirmed_l3_blocks(st) + 1)
    IN  IF next = None THEN st
        ELSE submit_l3_blocks(st, <<tip_block(chain)>>)

\* ChannelSettlement::submit_block: the oracle's keys after it
submit_block(chain, st) ==
    LET next == get_block(chain, confirmed_l3_blocks(st) + 1)
    IN  IF next = None THEN st
        ELSE submit_l3_blocks(st, <<next[1]>>)

\* ---------------------------------------------------------------- Init
Init ==
    /\ tx_map = EmptyMap
    /\ state = [next_number |-> 1, prev_hash |-> ZeroHash, state_root |-> ZeroHash]
    /\ clock = 0
    /\ block_tree = EmptyMap
    /\ latest_header = None
    /\ number_hash_tree = EmptyMap
    /\ tx_tree = EmptyMap
    /\ si = 0
    /\ pc = "idle"
    /\ block = None
    /\ state_trie = EmptyMap
    /\ block_exec_cache = EmptyMap
    /\ tx_exec_cache = EmptyMap
    /\ log_cache = EmptyMap
    /\ resp_list = <<>>
    /\ resp = None
    /\ ti = 0
    /\ ri = 0
    /\ written = EmptyMap
    /\ flush_lock = [readers |-> 0, writer |-> FALSE]
    /\ ins = [c \in Clients |-> IdleInsert]
    /\ pk = IdlePk
    /\ live = {}
    /\ store_leaves = EmptyMap
    /\ overlay_leaves = EmptyMap
    /\ transactions = <<>>
    /\ receipts = <<>>
    /\ exec_receipt = None
    /\ tip_number = 0
    /\ packaged = <<>>
    /\ consensus_receipt = None
    /\ channel_chain = genesis_init
    /\ channel_pool = EmptyMap
    /\ pool_call = IdlePoolCall
    /\ oracle_store = EmptyMap
    /\ oracle_call = NoOracleCall
    /\ smt_call = NoSmtCall
    /\ exec_call = NoExecCall
    /\ cpc = "idle"

\* the (address, token_id) pairs the requests of stx name
TouchedPairs(stx) ==
    LET rs == stx.raw.requests
    IN  {<<rs[i].address, rs[i].token_id>> : i \in 1..Len(rs)} \cup
        {<<rs[i].to[1], rs[i].token_id>> : i \in {j \in 1..Len(rs) : rs[j].to # None}}

\* where exec goes when it turns to the transaction at index i of txs
Position(txs, i) ==
    IF i > Len(txs) THEN "commit"
    ELSE IF txs[i].raw.requests = <<>> THEN "finish"
    ELSE "load"

\* -------------------------------------------------------------- actions
\* RpcImpl::send_transaction -> MemPoolImpl::insert
SendTransaction(stx) ==
    /\ pc \notin {"panic_add", "panic_sub"}
    /\ Cardinality(DOMAIN tx_map) < MaxPool
    /\ tx_map' = IF verify_tx(stx) = "ok" THEN Put(tx_map, stx.tx_hash, stx) ELSE tx_map
    /\ UNCHANGED <<consensus_vars, chain_vars, executor_vars, history_vars, pc,
                   pool_call_vars, channel_vars, channel_pool_vars, direct_vars>>

\* Consensus::run, one tick: package, build_block, Executor::new, and the
\* head of exec (the state trie is opened at the header's state_root)
Tick ==
    /\ pc = "idle"
    /\ state.next_number <= MaxBlocks
    /\ \E entries \in IterOrders(tx_map) :
          LET now == clock + BLOCK_INTERVAL * 1000
              b == build_block(package(entries, CYCLE_LIMIT), now)
          IN  /\ clock' = now
              /\ block' = b
              /\ state_trie' = trie(b.header.state_root)
              /\ pc' = Position(b.txs, 1)
    /\ block_exec_cache' = EmptyMap
    /\ tx_exec_cache' = EmptyMap
    /\ log_cache' = EmptyMap
    /\ resp_list' = <<>>
    /\ resp' = None
    /\ ti' = 1
    /\ ri' = 1
    /\ written' = EmptyMap
    /\ UNCHANGED <<mempool_vars, chain_vars, state, pool_call_vars, channel_vars, channel_pool_vars, direct_vars>>

\* inner_exec, request loop, first half: the record of the request's
\* (address, token_id) is put into tx_exec_cache
ExecLoad ==
    /\ pc = "load"
    /\ LET req == block.txs[ti].raw.requests[ri]
       IN  tx_exec_cache' = load_record(tx_exec_cache, state_trie, req.address, req.token_id)
    /\ pc' = "apply"
    /\ UNCHANGED <<mempool_vars, consensus_vars, chain_vars, state_trie, pool_call_vars,
                   channel_vars, channel_pool_vars, direct_vars,
                   block_exec_cache, log_cache, resp_list, resp, ti, ri, written>>

\* inner_exec, request loop, second half: the action is applied.  A failed
\* precondition clears tx_exec_cache and ends the transaction with an
\* error response (exec goes on with the next transaction); an arithmetic
\* panic ends the producer task
ExecApply ==
    /\ pc = "apply"
    /\ LET stx == block.txs[ti]
           req == stx.raw.requests[ri]
           r == apply_action(tx_exec_cache, req, state_trie)
           logs == IF stx.tx_hash \in DOMAIN log_cache THEN log_cache[stx.tx_hash] ELSE <<>>
       IN  /\ log_cache' = Put(log_cache, stx.tx_hash, logs \o r.logs)
           /\ tx_exec_cache' = r.cache
           /\ IF r.outcome = "ok"
              THEN /\ pc' = IF ri < Len(stx.raw.requests) THEN "load" ELSE "finish"
                   /\ ri' = IF ri < Len(stx.raw.requests) THEN ri + 1 ELSE ri
                   /\ UNCHANGED <<ti, resp_list>>
              ELSE IF r.outcome \in {"panic_add", "panic_sub"}
              THEN /\ pc' = r.outcome
                   /\ UNCHANGED <<ti, ri, resp_list>>
              ELSE /\ resp_list' = Append(resp_list, err_response(stx, r.outcome))
                   /\ ti' = ti + 1
                   /\ ri' = 1
                   /\ pc' = Position(block.txs, ti + 1)
    /\ UNCHANGED <<mempool_vars, consensus_vars, chain_vars, state_trie, pool_call_vars,
                   channel_vars, channel_pool_vars, direct_vars,
                   block_exec_cache, resp, written>>

\* inner_exec, after the last request: tx_exec_cache goes into
\* block_exec_cache and the success response is pushed
ExecFinish ==
    /\ pc = "finish"
    /\ block_exec_cache' = merge_tx_cache(block_exec_cache, tx_exec_cache)
    /\ resp_list' = Append(resp_list, ok_response(block.txs[ti]))
    /\ ti' = ti + 1
    /\ ri' = 1
    /\ pc' = Position(block.txs, ti + 1)
    /\ written' = LET touched == TouchedPairs(block.txs[ti])
                  IN  [p \in (DOMAIN written) \cup touched |->
                          IF p \in touched THEN tx_exec_cache[p[1]][p[2]] ELSE written[p]]
    /\ UNCHANGED <<mempool_vars, consensus_vars, chain_vars, state_trie, pool_call_vars,
                   channel_vars, channel_pool_vars, direct_vars,
                   tx_exec_cache, log_cache, resp>>

\* exec, after the last transaction: commit_cache, and the response with
\* the root of the state trie
ExecCommit ==
    /\ pc = "commit"
    /\ state_trie' = commit_cache(block_exec_cache, state_trie)
    /\ resp' = Some([state_root |-> TrieRoot(state_trie'), inner |-> resp_list])
    /\ pc' = "save"
    /\ UNCHANGED <<mempool_vars, consensus_vars, chain_vars, block_exec_cache, pool_call_vars,
                   channel_vars, channel_pool_vars, direct_vars,
                   tx_exec_cache, log_cache, resp_list, ti, ri, written>>

\* CovalentChain::save_block, first write: the block under its header hash
SaveBlockInsert ==
    /\ pc = "save"
    /\ block_tree' = Put(block_tree, header_hash(block), rlp_block(block))
    /\ pc' = "save_latest"
    /\ UNCHANGED <<mempool_vars, consensus_vars, executor_vars, history_vars,
                   pool_call_vars, channel_vars, channel_pool_vars, direct_vars, latest_header, number_hash_tree, tx_tree, si>>

\* CovalentChain::save_block, second write: the header under LATEST_HEADER_KEY
SaveLatest ==
    /\ pc = "save_latest"
    /\ latest_header' = Some(rlp_header(block.header))
    /\ pc' = "save_number"
    /\ UNCHANGED <<mempool_vars, consensus_vars, executor_vars, history_vars,
                   pool_call_vars, channel_vars, channel_pool_vars, direct_vars, block_tree, number_hash_tree, tx_tree, si>>

\* CovalentChain::save_block, third write: number -> header hash
SaveNumber ==
    /\ pc = "save_number"
    /\ number_hash_tree' = Put(number_hash_tree, u64_le_bytes(block.header.number),
                               header_hash(block))
    /\ si' = 1
    /\ pc' = "save_txs"
    /\ UNCHANGED <<mempool_vars, consensus_vars, executor_vars, history_vars,
                   pool_call_vars, channel_vars, channel_pool_vars, direct_vars, block_tree, latest_header, tx_tree>>

\* CovalentChain::save_block, one turn of the loop over block.txs
SaveTx ==
    /\ pc = "save_txs"
    /\ si <= Len(block.txs)
    /\ tx_tree' = Put(tx_tree, block.txs[si].tx_hash, rlp_stx(block.txs[si]))
    /\ si' = si + 1
    /\ UNCHANGED <<mempool_vars, consensus_vars, executor_vars, history_vars,
                   pool_call_vars, channel_vars, channel_pool_vars, direct_vars, block_tree, latest_header, number_hash_tree, pc>>

\* Consensus::run, after save_block has returned: the producer's state
\* moves on; the executor and the block go out of scope
Advance ==
    /\ pc = "save_txs"
    /\ si > Len(block.txs)
    /\ state' = [next_number |-> block.header.number + 1,
                 prev_hash |-> header_hash(block),
                 state_root |-> resp[1].state_root]
    /\ pc' = "idle"
    /\ block' = None
    /\ state_trie' = EmptyMap
    /\ block_exec_cache' = EmptyMap
    /\ tx_exec_cache' = EmptyMap
    /\ log_cache' = EmptyMap
    /\ resp_list' = <<>>
    /\ resp' = None
    /\ ti' = 0
    /\ ri' = 0
    /\ si' = 0
    /\ written' = EmptyMap
    /\ UNCHANGED <<mempool_vars, clock, pool_call_vars, channel_vars, channel_pool_vars, direct_vars, block_tree, latest_header,
                   number_hash_tree, tx_tree>>

Next ==
    \/ \E stx \in TxInputs : SendTransaction(stx)
    \/ Tick
    \/ ExecLoad
    \/ ExecApply
    \/ ExecFinish
    \/ ExecCommit
    \/ SaveBlockInsert
    \/ SaveLatest
    \/ SaveNumber
    \/ SaveTx
    \/ Advance

Spec == Init /\ [][Next]_vars

\* ------------------------------------------- the mempool's own calls
\* The pool as its callers see it: insert, package and remove as calls of
\* concurrent threads, each split at the points where flush_lock is taken
\* and released.
other_vars == <<consensus_vars, chain_vars, executor_vars, history_vars, pc,
                channel_vars, channel_pool_vars, direct_vars>>

\* MemPoolImpl::insert, up to the lock: verify_tx, and the error is returned
\* if it fails
InsertCall(c, stx) ==
    /\ ins[c].pc = "idle"
    /\ ins' = [ins EXCEPT ![c] =
                  IF verify_tx(stx) = "ok"
                  THEN [pc |-> "want_read", stx |-> Some(stx), ret |-> "none"]
                  ELSE [pc |-> "idle", stx |-> Some(stx), ret |-> verify_tx(stx)]]
    /\ UNCHANGED <<tx_map, flush_lock, pk, live, other_vars>>

\* MemPoolImpl::insert: flush_lock.read()
InsertLock(c) ==
    /\ ins[c].pc = "want_read"
    /\ can_read(flush_lock)
    /\ flush_lock' = [flush_lock EXCEPT !.readers = @ + 1]
    /\ ins' = [ins EXCEPT ![c].pc = "has_read"]
    /\ UNCHANGED <<tx_map, pk, live, other_vars>>

\* MemPoolImpl::insert: tx_map.insert, Ok(()), and the guard is dropped
InsertPut(c) ==
    /\ ins[c].pc = "has_read"
    /\ tx_map' = pool_insert(tx_map, ins[c].stx[1])
    /\ flush_lock' = [flush_lock EXCEPT !.readers = @ - 1]
    /\ ins' = [ins EXCEPT ![c].pc = "idle", ![c].ret = "ok"]
    /\ live' = live \cup {ins[c].stx[1].tx_hash}
    /\ UNCHANGED <<pk, other_vars>>

\* MemPoolImpl::package: flush_lock.write(), sum_cycle = 0, tx_map.iter()
PackageLock(total_limit) ==
    /\ pk.pc = "idle"
    /\ can_write(flush_lock)
    /\ flush_lock' = [flush_lock EXCEPT !.writer = TRUE]
    /\ \E order \in SlotOrders :
          pk' = [IdlePk EXCEPT !.pc = "iter", !.limit = total_limit, !.order = order,
                               !.snapshot = tx_map, !.live0 = live]
    /\ UNCHANGED <<tx_map, ins, live, other_vars>>

\* MemPoolImpl::package: the iterator yields its next entry and take_while
\* keeps it or ends the iteration
PackageNext ==
    /\ pk.pc = "iter"
    /\ ~pk.stopped
    /\ iter_next(pk.order, pk.cursor, tx_map) # 0
    /\ LET i == iter_next(pk.order, pk.cursor, tx_map)
           tx == tx_map[pk.order[i]]
       IN  pk' = IF fits(pk.limit, pk.sum_cycle, cycle_limit(tx))
                 THEN [pk EXCEPT !.cursor = i, !.acc = Append(@, tx),
                                 !.sum_cycle = @ + cycle_limit(tx)]
                 ELSE [pk EXCEPT !.stopped = TRUE]
    /\ UNCHANGED <<tx_map, flush_lock, ins, live, other_vars>>

\* MemPoolImpl::package: collect, Ok(vec), and the guard is dropped
PackageReturn ==
    /\ pk.pc = "iter"
    /\ pk.stopped \/ iter_next(pk.order, pk.cursor, tx_map) = 0
    /\ pk' = [pk EXCEPT !.pc = "idle", !.done = "package"]
    /\ flush_lock' = [flush_lock EXCEPT !.writer = FALSE]
    /\ UNCHANGED <<tx_map, ins, live, other_vars>>

\* MemPoolImpl::remove: flush_lock.write()
RemoveLock(hashes) ==
    /\ pk.pc = "idle"
    /\ can_write(flush_lock)
    /\ flush_lock' = [flush_lock EXCEPT !.writer = TRUE]
    /\ pk' = [IdlePk EXCEPT !.pc = "rm", !.hashes = hashes, !.todo = hashes,
                            !.snapshot = tx_map]
    /\ live' = live \ {hashes[i] : i \in 1..Len(hashes)}
    /\ UNCHANGED <<tx_map, ins, other_vars>>

\* MemPoolImpl::remove: one turn of hashes.iter().for_each
RemoveNext ==
    /\ pk.pc = "rm"
    /\ pk.todo # <<>>
    /\ tx_map' = pool_remove(tx_map, Head(pk.todo))
    /\ pk' = [pk EXCEPT !.todo = Tail(@)]
    /\ UNCHANGED <<flush_lock, ins, live, other_vars>>

\* MemPoolImpl::remove: Ok(()), and the guard is dropped
RemoveReturn ==
    /\ pk.pc = "rm"
    /\ pk.todo = <<>>
    /\ pk' = [pk EXCEPT !.pc = "idle", !.done = "remove"]
    /\ flush_lock' = [flush_lock EXCEPT !.writer = FALSE]
    /\ UNCHANGED <<tx_map, ins, live, other_vars>>

PoolNext ==
    \/ \E c \in Clients, stx \in PoolInputs : InsertCall(c, stx)
    \/ \E c \in Clients : InsertLock(c)
    \/ \E c \in Clients : InsertPut(c)
    \/ \E total_limit \in Budgets : PackageLock(total_limit)
    \/ PackageNext
    \/ PackageReturn
    \/ \E hashes \in RemoveArgs : RemoveLock(hashes)
    \/ RemoveNext
    \/ RemoveReturn

PoolSpec == Init /\ [][PoolNext]_vars

\* ------------------------------------------------ the channel producer
\* main.rs drives the channel tier in rounds: produce_block, which runs
\* ChannelExecutor::exec over the packaged transactions, and then
\* apply_consensus_receipt.
not_channel_vars == <<mempool_vars, pool_call_vars, consensus_vars, chain_vars,
                      executor_vars, history_vars, pc, channel_pool_vars,
                      direct_vars>>

\* ChannelConsensus::produce_block up to the executor's loop: the packaged
\* transactions, their raw parts given to exec, and exec's fresh MemStore
\* and receipts
ChannelExecStart(txs) ==
    /\ cpc = "idle"
    /\ tip_number < MaxChannelBlocks
    /\ packaged' = txs
    /\ transactions' = [i \in 1..Len(txs) |-> txs[i].raw]
    /\ overlay_leaves' = EmptyMap
    /\ receipts' = <<>>
    /\ cpc' = "exec"
    /\ UNCHANGED <<store_leaves, exec_receipt, tip_number, consensus_receipt,
                   channel_chain, not_channel_vars>>

\* the transaction exec's loop is at
ChannelCurTx == transactions[Len(receipts) + 1]

\* an exec whose tree writes through to the store
ExecPush_write_through(out) ==
    /\ overlay_leaves' = out.overlay
    /\ store_leaves' = smt_leaves(store_leaves, out.overlay)
    /\ receipts' = Append(receipts, out.receipt)
    /\ UNCHANGED <<transactions, exec_receipt, tip_number, cpc,
                   packaged, consensus_receipt, channel_chain, not_channel_vars>>

\* exec's loop pushes the receipt; the tree keeps what the call wrote
ExecPush(out) ==
    /\ overlay_leaves' = out.overlay
    /\ receipts' = Append(receipts, out.receipt)
    /\ UNCHANGED <<store_leaves, transactions, exec_receipt, tip_number, cpc,
                   packaged, consensus_receipt, channel_chain, not_channel_vars>>

\* one round of exec's loop, one action per arm of its match
ExecCreateChannel ==
    /\ cpc = "exec"
    /\ Len(receipts) < Len(transactions)
    /\ ChannelCurTx.kind = "CreateChannel"
    /\ ExecPush(create_channel(store_leaves, overlay_leaves, ChannelCurTx))

ExecUpdateChannel ==
    /\ cpc = "exec"
    /\ Len(receipts) < Len(transactions)
    /\ ChannelCurTx.kind = "UpdateChannel"
    /\ ExecPush(update_channel(store_leaves, overlay_leaves, ChannelCurTx))

ExecCloseChannel ==
    /\ cpc = "exec"
    /\ Len(receipts) < Len(transactions)
    /\ ChannelCurTx.kind = "CloseChannel"
    /\ ExecPush(close_channel(store_leaves, overlay_leaves, ChannelCurTx))

\* an SMT error in exec (a read of the store failed): exec returns it
\* through its ?, the MemStore is dropped with its overlay, and
\* produce_block returns the error
ChannelExecError ==
    /\ cpc = "exec"
    /\ overlay_leaves' = EmptyMap
    /\ transactions' = <<>>
    /\ receipts' = <<>>
    /\ packaged' = <<>>
    /\ cpc' = "error"
    /\ UNCHANGED <<store_leaves, exec_receipt, tip_number, consensus_receipt,
                   channel_chain, not_channel_vars>>

\* the end of exec, the ExecutionReceipt, and the rest of produce_block: the
\* next block on the tip and the ConsensusReceipt
ChannelExecReturn ==
    /\ cpc = "exec"
    /\ Len(receipts) = Len(transactions)
    /\ LET er == [state_root |-> smt_root(store_leaves, overlay_leaves),
                  receipt_root |-> cbmt_merkle_root(receipts),
                  transaction_receipts |-> receipts,
                  updated_channels |-> overlay_leaves]
       IN  /\ exec_receipt' = Some(er)
           /\ consensus_receipt' =
                  Some([block |-> next_block(tip_block(channel_chain), packaged, er, clock),
                        transaction_receipts |-> er.transaction_receipts,
                        updated_channels |-> er.updated_channels])
    /\ cpc' = "apply"
    /\ UNCHANGED <<store_leaves, overlay_leaves, transactions, receipts,
                   tip_number, packaged, channel_chain, not_channel_vars>>

\* ChannelChain::apply_consensus_receipt: the block, the tip, the
\* transactions and their receipts are stored, and the updated channels are
\* written to the store's tree
ApplyConsensusReceipt ==
    /\ cpc = "apply"
    /\ channel_chain' = apply_chain(channel_chain, consensus_receipt[1])
    /\ store_leaves' = smt_leaves(store_leaves, consensus_receipt[1].updated_channels)
    /\ tip_number' = tip_number + 1
    /\ cpc' = "idle"
    /\ UNCHANGED <<overlay_leaves, transactions, receipts, exec_receipt,
                   packaged, consensus_receipt, not_channel_vars>>

\* what package_transactions can return: one transaction per sender
ChannelTxLists ==
    UNION {{[i \in 1..n |-> sign_tx(Senders[i], raws[i])] :
               raws \in [1..n -> ChannelTxInputs]} : n \in 0..MaxChannelTxs}

ChannelNext ==
    \/ \E txs \in ChannelTxLists : ChannelExecStart(txs)
    \/ ExecCreateChannel
    \/ ExecUpdateChannel
    \/ ExecCloseChannel
    \/ ChannelExecError
    \/ ChannelExecReturn
    \/ ApplyConsensusReceipt

ChannelSpec == Init /\ [][ChannelNext]_vars

\* -------------------------------------------- the channel mempool's calls
\* Each call of ChannelMap takes the map's lock for its whole body (write
\* for push_transaction and reset, read for package_transactions), so a call
\* starts only when no other holds it.
not_channel_pool_vars == <<mempool_vars, pool_call_vars, consensus_vars, chain_vars,
                           executor_vars, history_vars, pc, channel_vars,
                           direct_vars>>

\* ChannelMap::push_transaction
PushTransaction(tx) ==
    /\ pool_call.op = "idle"
    /\ PoolSize(channel_pool) < MaxChannelPool
    /\ channel_pool' = push_transaction(channel_pool, tx)
    /\ UNCHANGED <<pool_call, not_channel_pool_vars>>

\* ChannelMap::package_transactions, the vector it returns in the caller's
\* hands
PackageTransactions ==
    /\ pool_call.op = "idle"
    /\ \E order \in ValueOrders(channel_pool) :
           pool_call' = [IdlePoolCall EXCEPT
                            !.op = "packaged",
                            !.out = package_transactions(channel_pool, order)]
    /\ UNCHANGED <<channel_pool, not_channel_pool_vars>>

\* the caller is done with the vector
PackageDone ==
    /\ pool_call.op = "packaged"
    /\ pool_call' = IdlePoolCall
    /\ UNCHANGED <<channel_pool, not_channel_pool_vars>>

\* ChannelMap::reset takes the lock, for the transactions of a block
ResetStart(block_txs) ==
    /\ pool_call.op = "idle"
    /\ pool_call' = [IdlePoolCall EXCEPT !.op = "reset", !.txs = block_txs, !.i = 1]
    /\ UNCHANGED <<channel_pool, not_channel_pool_vars>>

\* one round of reset's loop; `before` remembers the map the round started
\* with
ResetRound ==
    /\ pool_call.op = "reset"
    /\ pool_call.i <= Len(pool_call.txs)
    /\ channel_pool' = reset_one(channel_pool, pool_call.txs[pool_call.i])
    /\ pool_call' = [pool_call EXCEPT !.i = @ + 1, !.before = channel_pool]
    /\ UNCHANGED not_channel_pool_vars

\* reset returns
ResetDone ==
    /\ pool_call.op = "reset"
    /\ pool_call.i > Len(pool_call.txs)
    /\ pool_call' = IdlePoolCall
    /\ UNCHANGED <<channel_pool, not_channel_pool_vars>>

\* the blocks reset is called with
ResetBlocks == UNION {[1..n -> ChannelPoolInputs] : n \in 0..MaxChannelTxs}

ChannelPoolNext ==
    \/ \E tx \in ChannelPoolInputs : PushTransaction(tx)
    \/ PackageTransactions
    \/ PackageDone
    \/ \E block_txs \in ResetBlocks : ResetStart(block_txs)
    \/ ResetRound
    \/ ResetDone

ChannelPoolSpec == Init /\ [][ChannelPoolNext]_vars

\* ------------------------------------------------- settlement and oracle
\* ChannelSettlement::submit_block, called by the thread that calls
\* produce_block and apply_consensus_receipt, between two of its calls
SubmitBlock ==
    /\ cpc = "idle" \/ cpc = "apply"
    /\ oracle_store' = submit_block(channel_chain, oracle_store)
    /\ oracle_call' = [op |-> "submit_block", arg |-> <<confirmed_l3_blocks(oracle_store)>>]
    /\ UNCHANGED <<smt_call, exec_call, mempool_vars, pool_call_vars, consensus_vars, chain_vars,
                   executor_vars, history_vars, pc, channel_vars, channel_pool_vars>>

\* the blocks produced while settlement runs hold at most one transaction
SettlementTxLists == {txs \in ChannelTxLists : Len(txs) <= 1}

SettlementNext ==
    \/ \E txs \in SettlementTxLists : ChannelExecStart(txs)
    \/ ExecCreateChannel
    \/ ExecUpdateChannel
    \/ ExecCloseChannel
    \/ ChannelExecError
    \/ ChannelExecReturn
    \/ ApplyConsensusReceipt
    \/ SubmitBlock

SettlementSpec == Init /\ [][SettlementNext]_vars

\* the arguments the oracle's setters are called with
ChannelIdLists == UNION {[1..n -> ChannelIds] : n \in 0..2}
CreateChannelLists ==
    {<<>>} \cup {<<c>> : c \in CreateInputs}

not_oracle_vars == <<smt_call, exec_call, mempool_vars, pool_call_vars, consensus_vars, chain_vars,
                     executor_vars, history_vars, pc, channel_vars, channel_pool_vars>>

SetConfirmedL3Blocks(blocks) ==
    /\ oracle_store' = set_confirmed_l3_blocks(oracle_store, blocks)
    /\ oracle_call' = [op |-> "set_confirmed_l3_blocks", arg |-> <<blocks>>]
    /\ UNCHANGED not_oracle_vars

SetConfirmedL3Withdrawals(channels) ==
    /\ oracle_store' = set_confirmed_l3_withdrawals(oracle_store, channels)
    /\ oracle_call' = [op |-> "set_confirmed_l3_withdrawals", arg |-> channels]
    /\ UNCHANGED not_oracle_vars

SetPendingL3Withdrawals(channels) ==
    /\ oracle_store' = set_pending_l3_withdrawals(oracle_store, channels)
    /\ oracle_call' = [op |-> "set_pending_l3_withdrawals", arg |-> channels]
    /\ UNCHANGED not_oracle_vars

SetPendingL2CreateChannels(create_channels) ==
    /\ oracle_store' = set_pending_l2_create_channels(oracle_store, create_channels)
    /\ oracle_call' = [op |-> "set_pending_l2_create_channels", arg |-> create_channels]
    /\ UNCHANGED not_oracle_vars

OracleNext ==
    \/ \E blocks \in 0..MaxChannelBlocks : SetConfirmedL3Blocks(blocks)
    \/ \E channels \in ChannelIdLists : SetConfirmedL3Withdrawals(channels)
    \/ \E channels \in ChannelIdLists : SetPendingL3Withdrawals(channels)
    \/ \E create_channels \in CreateChannelLists : SetPendingL2CreateChannels(create_channels)

OracleSpec == Init /\ [][OracleNext]_vars

\* ------------------------------------------- the tree, used directly
\* the channels written to a tree: the zero channel and channels as
\* create_channel and update_channel leave them
SmtValues ==
    {ZeroChannel} \cup
    {[ZeroChannel EXCEPT !.id = id, !.state = "Open", !.version = v,
                         !.token = TestToken,
                         !.challenge_blocks = ChallengeBlocks,
                         !.participant2 = Participants,
                         !.total_balance = 2,
                         !.balance2 = <<Balance(2 - v), Balance(v)>>] :
        id \in ChannelIds, v \in 0..1}

not_smt_vars == <<mempool_vars, pool_call_vars, consensus_vars, chain_vars,
                  executor_vars, history_vars, pc, channel_pool_vars,
                  oracle_store, oracle_call, exec_call, transactions, receipts,
                  exec_receipt, tip_number, packaged, consensus_receipt,
                  channel_chain, cpc>>

\* SMT::new_with_store(store).update(key, value), as test_smt and
\* apply_consensus_receipt do
SmtStoreUpdate(key, value) ==
    /\ store_leaves' = smt_update(store_leaves, key, value)
    /\ smt_call' = [on |-> "store", key |-> key, value |-> value]
    /\ UNCHANGED <<overlay_leaves, not_smt_vars>>

\* SMT::new_with_store(MemStore::new(store)), as exec does: an empty overlay
SmtNewMemStore ==
    /\ overlay_leaves # EmptyMap
    /\ overlay_leaves' = EmptyMap
    /\ smt_call' = NoSmtCall
    /\ UNCHANGED <<store_leaves, not_smt_vars>>

\* update(key, value) on the tree over the MemStore
SmtMemStoreUpdate(key, value) ==
    /\ overlay_leaves' = smt_update(overlay_leaves, key, value)
    /\ smt_call' = [on |-> "overlay", key |-> key, value |-> value]
    /\ UNCHANGED <<store_leaves, not_smt_vars>>

SmtNext ==
    \/ \E key \in ChannelIds, value \in SmtValues : SmtStoreUpdate(key, value)
    \/ SmtNewMemStore
    \/ \E key \in ChannelIds, value \in SmtValues : SmtMemStoreUpdate(key, value)

SmtSpec == Init /\ [][SmtNext]_vars

\* ------------------------------------------------ one Executor, reused
\* Execute::exec takes &mut self: an Executor can be given several calls.
\* The state roots it is called with are the empty trie's and the one its
\* latest call returned; the transactions are any the pool admits.
ExecTxLists == UNION {[1..n -> ValidTxs] : n \in 1..2}

not_executor_vars == <<mempool_vars, pool_call_vars, consensus_vars, chain_vars,
                       history_vars, pc, channel_vars, channel_pool_vars,
                       oracle_store, oracle_call, smt_call,
                       state_trie, log_cache, resp_list, ti, ri>>

\* the state roots the Executor is called with
ExecRoots == {ZeroHash} \cup (IF resp = None THEN {} ELSE {resp[1].state_root})

\* one call of exec on the Executor that returns
ExecCallAt(state_root, txs) ==
    /\ exec_call.n < MaxExecCalls
    /\ LET r == exec_from(txs, 1, tx_exec_cache, block_exec_cache, trie(state_root), <<>>)
           c == exec_caches_from(txs, 1, tx_exec_cache, block_exec_cache, trie(state_root))
       IN  /\ r.outcome = "ok"
           /\ resp' = Some([state_root |-> r.state_root, inner |-> r.inner])
           /\ tx_exec_cache' = c.tx_cache
           /\ block_exec_cache' = c.block_cache
    /\ exec_call' = [n |-> exec_call.n + 1, state_root |-> state_root, txs |-> txs]
    /\ UNCHANGED not_executor_vars

\* a call of exec that panics on an overflow: the Executor is lost with the
\* task that owned it
ExecPanicAt(state_root, txs) ==
    /\ exec_call.n < MaxExecCalls
    /\ exec_from(txs, 1, tx_exec_cache, block_exec_cache, trie(state_root), <<>>).outcome
           \in {"panic_add", "panic_sub"}
    /\ resp' = None
    /\ tx_exec_cache' = EmptyMap
    /\ block_exec_cache' = EmptyMap
    /\ exec_call' = [NoExecCall EXCEPT !.n = MaxExecCalls]
    /\ UNCHANGED not_executor_vars

ExecCall == \E state_root \in ExecRoots, txs \in ExecTxLists : ExecCallAt(state_root, txs)

ExecCallPanics ==
    \E state_root \in ExecRoots, txs \in ExecTxLists : ExecPanicAt(state_root, txs)

ExecutorNext ==
    \/ ExecCall
    \/ ExecCallPanics

ExecutorSpec == Init /\ [][ExecutorNext]_vars

\* ------------------------------------ the channel producer's loop (main)
\* produce_block -> apply_consensus_receipt -> reset(&receipt.block), with
\* push_transaction whenever no call holds the map's write lock.

\* produce_block begins: package_transactions, then exec is given the raw
\* transactions; the packaged vector stays with produce_block
LoopProduceStart ==
    /\ cpc = "idle"
    /\ pool_call.op = "idle"
    /\ tip_number < MaxChannelBlocks
    /\ \E order \in ValueOrders(channel_pool) :
          LET txs == package_transactions(channel_pool, order)
          IN  /\ pool_call' = [IdlePoolCall EXCEPT !.op = "packaged", !.out = txs]
              /\ packaged' = txs
              /\ transactions' = [i \in 1..Len(txs) |-> txs[i].raw]
    /\ overlay_leaves' = EmptyMap
    /\ receipts' = <<>>
    /\ cpc' = "exec"
    /\ UNCHANGED <<store_leaves, exec_receipt, tip_number, consensus_receipt,
                   channel_chain, channel_pool, mempool_vars, pool_call_vars,
                   consensus_vars, chain_vars, executor_vars, history_vars, pc,
                   direct_vars>>

\* push_transaction while the loop runs (main's unwrap ends the process on
\* an error of produce_block)
LoopPush ==
    /\ cpc # "error"
    /\ pool_call.op = "idle" \/ pool_call.op = "packaged"
    /\ PoolSize(channel_pool) < MaxLoopPool
    /\ \E tx \in ChannelPoolInputs : channel_pool' = push_transaction(channel_pool, tx)
    /\ UNCHANGED <<pool_call, not_channel_pool_vars>>

\* mempool.reset(&receipt.block), after the receipt was applied
LoopResetStart ==
    /\ cpc = "idle"
    /\ pool_call.op = "packaged"
    /\ pool_call' = [IdlePoolCall EXCEPT !.op = "reset",
                                         !.txs = consensus_receipt[1].block.txs,
                                         !.i = 1]
    /\ UNCHANGED <<channel_pool, not_channel_pool_vars>>

LoopNext ==
    \/ LoopProduceStart
    \/ LoopPush
    \/ ExecCreateChannel
    \/ ChannelExecError
    \/ ChannelExecReturn
    \/ ApplyConsensusReceipt
    \/ LoopResetStart
    \/ ResetRound
    \/ ResetDone

LoopSpec == Init /\ [][LoopNext]_vars

\* ---------------------------------- the producer's loop, repeated forever
\* The pool's side of the loop: the chain and the state tree grow with every
\* block and do not reach the pool, so the block is kept only as the vector
\* of its transactions.

\* the rest of produce_block and apply_consensus_receipt: the block holds the
\* packaged transactions whatever their receipts (consensus.rs 54-83), it is
\* committed, and reset is called with it
LoopCommitBlock ==
    /\ pool_call.op = "packaged"
    /\ pool_call' = [IdlePoolCall EXCEPT !.op = "reset",
                                         !.txs = pool_call.out,
                                         !.i = 1]
    /\ UNCHANGED <<channel_pool, not_channel_pool_vars>>

LoopForeverNext ==
    \/ PackageTransactions
    \/ LoopPush
    \/ LoopCommitBlock
    \/ ResetRound
    \/ ResetDone

\* the loop never stops: each of its steps is taken when it stays possible;
\* nothing obliges anyone to push
LoopForeverSpec ==
    /\ Init
    /\ [][LoopForeverNext]_vars
    /\ WF_vars(PackageTransactions)
    /\ WF_vars(LoopCommitBlock)
    /\ WF_vars(ResetRound)
    /\ WF_vars(ResetDone)

\* ------------------------------------------------------ model sanity
\* the step-by-step executor and exec as a function agree
StepsAgreeWithExec ==
    pc = "save" =>
        LET r == exec(block.header.state_root, block.txs)
        IN  r.outcome = "ok" /\ resp[1] = [state_root |-> r.state_root, inner |-> r.inner]

PanicsAgreeWithExec ==
    pc \in {"panic_add", "panic_sub"} =>
        exec(block.header.state_root, block.txs).outcome = pc

\* ------------------------------------------------------------- claims
Total(b) == b.active + b.locked

RECURSIVE KeepSucceeded(_, _)
\* the transactions of txs whose response in inner carries no error
KeepSucceeded(txs, inner) ==
    IF txs = <<>> THEN <<>>
    ELSE (IF Head(inner).error = None THEN <<Head(txs)>> ELSE <<>>) \o
         KeepSucceeded(Tail(txs), Tail(inner))

\* the request exec is at, and the transaction it belongs to
CurTx == block.txs[ti]
CurReq == block.txs[ti].raw.requests[ri]

\* C1 (the step of a failing request): a step that ends a transaction with
\* a failed precondition leaves tx_exec_cache empty, pushes a response with
\* an ExecuteError for that transaction and leaves block_exec_cache, the
\* state trie and the responses pushed so far as they were
C1_FailingStepRollsBack ==
    [][ (pc = "apply" /\ ti' = ti + 1) =>
            /\ tx_exec_cache' = EmptyMap
            /\ block_exec_cache' = block_exec_cache
            /\ state_trie' = state_trie
            /\ Len(resp_list') = Len(resp_list) + 1
            /\ SubSeq(resp_list', 1, Len(resp_list)) = resp_list
            /\ resp_list'[Len(resp_list')].tx_hash = CurTx.tx_hash
            /\ resp_list'[Len(resp_list')].error # None ]_vars

\* C1: a failing transaction contributes nothing to the committed balances:
\* for every pair named by a failed transaction, the committed
\* active + locked is what exec commits for the same block without the
\* failed transactions
C1_FailedTxDoesNotAffectCommitted ==
    pc = "save" =>
        LET inner == resp[1].inner
            without == exec(block.header.state_root, KeepSucceeded(block.txs, inner))
        IN  \A i \in 1..Len(inner) :
                inner[i].error # None =>
                    \A p \in TouchedPairs(block.txs[i]) :
                        /\ without.outcome = "ok"
                        /\ Total(BalanceAt(resp[1].state_root, p[1], p[2]))
                             = Total(BalanceAt(without.state_root, p[1], p[2]))

\* the pairs one request names
PairsOf(req) ==
    {<<req.address, req.token_id>>} \cup
    (IF req.to = None THEN {} ELSE {<<req.to[1], req.token_id>>})

\* C2: the first request of a transaction on a pair starts from the value
\* the latest earlier successful transaction of the block left for that
\* pair, and from the trie value at the input state_root if there is none -
\* whatever ran in between
C2_SeesEarlierSuccesses ==
    (pc = "apply" /\ \A j \in 1..(ri - 1) :
                        <<CurReq.address, CurReq.token_id>> \notin PairsOf(CurTx.raw.requests[j]))
    => LET p == <<CurReq.address, CurReq.token_id>>
       IN  tx_exec_cache[p[1]][p[2]] =
               IF p \in DOMAIN written THEN written[p]
               ELSE BalanceAt(block.header.state_root, p[1], p[2])

\* C3: at commit every pair named by a successful transaction of the block
\* is in the state trie with the value the last such transaction left
C3_CommitWritesEverySuccess ==
    pc = "save" =>
        \A p \in DOMAIN written :
            BalanceAt(resp[1].state_root, p[1], p[2]) = written[p]

\* every TokenBalance the executor holds or has committed
CachedBalances(cache) == {cache[a][t] : <<a, t>> \in {<<a, t>> \in (DOMAIN cache) \X TokenIds : t \in DOMAIN cache[a]}}
TrieBalances(st) ==
    {BalanceAt(TrieRoot(st), a, t) : <<a, t>> \in Addresses \X TokenIds}
InRange(b) == b.active \in 0..U256_MAX /\ b.locked \in 0..U256_MAX

\* C4: no subtraction underflows (a U256 `-=` that underflows panics), and
\* every cached and committed active and locked is within 0..U256_MAX
C4_NoUnderflow ==
    /\ pc # "panic_sub"
    /\ \A b \in CachedBalances(tx_exec_cache) \cup CachedBalances(block_exec_cache) : InRange(b)
    /\ \A b \in TrieBalances(state_trie) \cup TrieBalances(trie(state.state_root)) : InRange(b)

\* C4's case: an Unlock has just subtracted from locked
C4_Witness ==
    pc = "finish" /\ CurReq.action = "Unlock"

\* the state_root of the block before b (the zero hash before the first)
ParentStateRoot(b) ==
    IF b.header.prev_hash = ZeroHash THEN ZeroHash
    ELSE get_block_by_hash(b.header.prev_hash)[1].header.state_root

\* C5: the state_root in every saved block's header is the state root exec
\* returns for the block's transactions on the parent's state_root
C5_HeaderHoldsExecutedRoot ==
    \A h \in DOMAIN block_tree :
        LET b == get_block_by_hash(h)[1]
            r == exec(ParentStateRoot(b), b.txs)
        IN  r.outcome = "ok" /\ b.header.state_root = r.state_root

\* C6: once a block is saved, get_balance returns the balances produced by
\* executing that block
C6_GetBalanceAfterBlock ==
    (pc = "idle" /\ latest_header # None) =>
        LET b == get_block_by_hash(Digest(get_latest_block.value))[1]
            r == exec(b.header.state_root, b.txs)
        IN  \A a \in Addresses, t \in TokenIds :
                rpc_get_balance(a, t) = [outcome |-> "ok", value |-> BalanceAt(r.state_root, a, t)]

TxHashes(b) == {b.txs[i].tx_hash : i \in 1..Len(b.txs)}

\* C7: the transactions of a saved block are no longer in the pool, and no
\* transaction is in two blocks
C7_PackagedOnce ==
    /\ pc = "idle" =>
           \A h \in DOMAIN block_tree :
               TxHashes(get_block_by_hash(h)[1]) \cap DOMAIN tx_map = {}
    /\ \A h1, h2 \in DOMAIN block_tree :
           h1 # h2 => TxHashes(get_block_by_hash(h1)[1]) \cap TxHashes(get_block_by_hash(h2)[1]) = {}

\* the table of section 4.3
Precondition(req, b) ==
    CASE req.action = "Mint" -> TRUE
      [] req.action = "Lock" -> b.active >= req.amount
      [] req.action = "Unlock" -> b.locked >= req.amount
      [] req.action = "Divert" -> b.active >= req.amount
Effect(req, b) ==
    CASE req.action = "Mint" -> [active |-> b.active + req.amount, locked |-> b.locked]
      [] req.action = "Lock" -> [active |-> b.active - req.amount, locked |-> b.locked + req.amount]
      [] req.action = "Unlock" -> [active |-> b.active + req.amount, locked |-> b.locked - req.amount]
      [] req.action = "Divert" -> [active |-> b.active - req.amount, locked |-> b.locked]

\* C8: a Mint, Lock, Unlock or Divert that succeeds had its precondition
\* true and changes the balance of its (address, token_id) exactly as
\* tabled; no other cached balance, and nothing in block_exec_cache or the
\* state trie, changes.  One that ends with an error had it false
C8_TabledEffect ==
    [][ (pc = "apply" /\ pc' \in {"load", "finish", "commit"} /\ CurReq.action # "Transfer") =>
            LET a == CurReq.address
                t == CurReq.token_id
                old == tx_exec_cache[a][t]
            IN  IF ti' = ti
                THEN /\ Precondition(CurReq, old)
                     /\ tx_exec_cache' = [tx_exec_cache EXCEPT ![a] = [@ EXCEPT ![t] = Effect(CurReq, old)]]
                     /\ block_exec_cache' = block_exec_cache
                     /\ state_trie' = state_trie
                ELSE ~Precondition(CurReq, old) ]_vars

\* C8's case: Mint 2 then Lock 1 on a fresh balance give {active 1, locked 1}
C8_Witness ==
    /\ pc = "finish"
    /\ CurReq.action = "Lock"
    /\ BalanceAt(block.header.state_root, "A", "T1") = DefaultBalance
    /\ tx_exec_cache["A"]["T1"] = [locked |-> 1, active |-> 1]

\* C9: exec never stops short of its response: the producer never panics in
\* it, there is one response per executed transaction, in input order, with
\* that transaction's tx_hash (which of them carry an error is C1's and
\* C8's part)
C9_OneResponsePerTx ==
    /\ pc \notin {"panic_add", "panic_sub"}
    /\ pc \in {"load", "apply", "finish"} =>
           /\ Len(resp_list) = ti - 1
           /\ \A i \in 1..Len(resp_list) : resp_list[i].tx_hash = block.txs[i].tx_hash
    /\ pc = "save" =>
           /\ Len(resp[1].inner) = Len(block.txs)
           /\ \A i \in 1..Len(block.txs) : resp[1].inner[i].tx_hash = block.txs[i].tx_hash

UnlockFails == 
    /\ pc = "apply"
    /\ CurReq.action = "Unlock"
    /\ tx_exec_cache[CurReq.address][CurReq.token_id].locked < CurReq.amount
NoSuccess == \A i \in 1..Len(resp_list) : resp_list[i].error # None
UnlockAnswer ==
    /\ resp_list' = Append(resp_list,
                           [tx_hash |-> CurTx.tx_hash, ret |-> <<>>,
                            error |-> Some([error_code |-> 1,
                                            error_message |-> "LockedAmountLessThanUnlock"])])
    /\ block_exec_cache' = block_exec_cache
    /\ state_trie' = state_trie

Refused(stx) ==
    \/ stx.raw.chain_id # CHAIN_ID
    \/ stx.raw.cycles_limit > 100000
    \/ Digest(stx.raw) # stx.tx_hash
    \/ \E i \in 1..Len(stx.raw.requests) :
          stx.raw.requests[i].action = "Transfer" /\ stx.raw.requests[i].to = None
    \/ ~(stx.signature.msg = stx.tx_hash /\ stx.signature.signer = stx.pub_key)

AdmissionErrors ==
    {"Invalid chain id", "Exceed tx cycle limit", "Tx hash diff",
     "Invalid transfer request", "Verify signature failed"}

\* C11: an insert of a transaction with a wrong chain id, a cycles_limit
\* above TX_CYCLE_LIMIT, a tx_hash that is not the hash of raw, a Transfer
\* without `to` or a signature that does not verify returns an error and
\* leaves the pool as it was; an insert of any other transaction goes on
\* and adds it; nothing else is ever added to the pool
C11_AdmissionRefuses ==
    [][ /\ \A c \in Clients :
              /\ (ins[c].pc = "idle" /\ ins'[c] # ins[c]) =>
                     IF Refused(ins'[c].stx[1])
                     THEN /\ ins'[c].pc = "idle"
                          /\ ins'[c].ret \in AdmissionErrors
                          /\ tx_map' = tx_map
                     ELSE ins'[c].pc = "want_read"
              /\ (ins[c].pc = "has_read" /\ ins'[c].pc = "idle") =>
                     /\ ins'[c].ret = "ok"
                     /\ tx_map' = Put(tx_map, ins[c].stx[1].tx_hash, ins[c].stx[1])
        /\ \A h \in DOMAIN tx_map' :
              (h \notin DOMAIN tx_map \/ tx_map'[h] # tx_map[h]) => ~Refused(tx_map'[h]) ]_vars

\* C11's case: an insert refused for its tx_hash on a pool that holds an
\* accepted transaction
C11_Witness ==
    \E c \in Clients :
        /\ ins[c].pc = "idle"
        /\ ins[c].ret = "Tx hash diff"
        /\ tx_map # EmptyMap

\* C12: the result of a package call with a limit the pool cannot reach
\* holds every transaction whose insert was accepted before the call and
\* that was not passed to remove since; package takes nothing out of the
\* pool
C12_PackageContainsAccepted ==
    pk.done = "package" =>
        /\ DOMAIN pk.snapshot \subseteq DOMAIN tx_map
        /\ (pk.pc = "idle" /\ pk.limit = CYCLE_LIMIT) =>
               pk.live0 \subseteq {pk.acc[i].tx_hash : i \in 1..Len(pk.acc)}

\* C12's case: an unbounded package after two accepted inserts
C12_Witness ==
    /\ pk.pc = "idle" /\ pk.done = "package" /\ pk.limit = CYCLE_LIMIT
    /\ Cardinality(pk.live0) = 2
    /\ Len(pk.acc) = 2

\* the entries of map m in the iteration order `order`
Entries(order, m) ==
    LET present == SelectSeq(order, LAMBDA h : h \in DOMAIN m)
    IN  [i \in 1..Len(present) |-> m[present[i]]]

RECURSIVE SumCycles(_)
SumCycles(txs) ==
    IF txs = <<>> THEN 0 ELSE Head(txs).raw.cycles_limit + SumCycles(Tail(txs))

\* C13: the result of package(cycle_limit) is a prefix of the pool in
\* iteration order, its cycles_limit sum is at most cycle_limit, and the
\* entry right after the prefix, if there is one, would exceed cycle_limit
C13_TakeWhilePrefix ==
    (pk.pc = "idle" /\ pk.done = "package") =>
        LET all == Entries(pk.order, pk.snapshot)
            n == Len(pk.acc)
        IN  /\ n <= Len(all)
            /\ pk.acc = SubSeq(all, 1, n)
            /\ SumCycles(pk.acc) <= pk.limit
            /\ n < Len(all) => SumCycles(pk.acc) + all[n + 1].raw.cycles_limit > pk.limit

\* C13's case: limits 10, 25, 10 in this order with budget 30 give only
\* the first transaction
C13_Witness ==
    /\ pk.pc = "idle" /\ pk.done = "package" /\ pk.limit = 30
    /\ pk.order = <<PT1.tx_hash, PT2.tx_hash, PT3.tx_hash>>
    /\ DOMAIN pk.snapshot = {PT1.tx_hash, PT2.tx_hash, PT3.tx_hash}
    /\ pk.acc = <<PT1>>

\* C14: while package or remove runs it holds the lock alone and no insert
\* takes effect; the vector package returns is the take-while prefix of the
\* pool as it was when the call took the lock
C14_PackageIsSnapshot ==
    /\ pk.pc \in {"iter", "rm"} =>
           /\ flush_lock.writer /\ flush_lock.readers = 0
           /\ \A c \in Clients : ins[c].pc # "has_read"
    /\ pk.pc = "iter" => tx_map = pk.snapshot
    /\ pk.pc = "rm" => DOMAIN tx_map \subseteq DOMAIN pk.snapshot
    /\ (pk.pc = "idle" /\ pk.done = "package") =>
           pk.acc = package(Entries(pk.order, pk.snapshot), pk.limit)

\* C14's case: an insert that passed verify_tx waits for the lock while
\* package is in the middle of its iteration
C14_Witness ==
    /\ pk.pc = "iter" /\ pk.cursor > 0
    /\ iter_next(pk.order, pk.cursor, tx_map) # 0
    /\ \E c \in Clients : ins[c].pc = "want_read" /\ ins[c].stx[1].tx_hash \notin DOMAIN tx_map

\* C15: when remove(hashes) returns, the pool is the pool of the moment
\* remove took the lock without the entries whose tx_hash is in hashes;
\* hashes not in the pool make no difference and remove returns Ok
C15_RemoveExactly ==
    [][ (pk.pc = "rm" /\ pk'.pc = "idle") =>
            /\ pk'.done = "remove"
            /\ tx_map' = [h \in (DOMAIN pk.snapshot) \ {pk.hashes[i] : i \in 1..Len(pk.hashes)} |->
                             pk.snapshot[h]] ]_vars

\* C15's case: remove of a present and an absent hash from a pool of two
C15_Witness ==
    /\ pk.pc = "idle" /\ pk.done = "remove"
    /\ pk.hashes = <<PT1.tx_hash, AbsentHash>>
    /\ DOMAIN pk.snapshot = {PT1.tx_hash, PT2.tx_hash}
    /\ DOMAIN tx_map = {PT2.tx_hash}

\* ------------------------------------------- chain and producer claims
\* save_block has returned for the block of this tick
Saved == pc = "save_txs" /\ si > Len(block.txs)

\* C16: the blocks the producer has committed are numbered 1, 2, ... without
\* gap, one block per number, and each block after the first has the header
\* hash of the block before it as its prev_hash
C16_HashChain ==
    /\ \A n \in 1..(state.next_number - 1) :
          LET b == get_block_by_number(n)
          IN  /\ b # None
              /\ b[1].header.number = n
              /\ n > 1 => b[1].header.prev_hash = header_hash(get_block_by_number(n - 1)[1])
    /\ \A h \in DOMAIN block_tree :
          LET b == get_block_by_hash(h)[1]
          IN  /\ b.header.number \in 1..state.next_number
              /\ b.header.number < state.next_number =>
                     get_block_by_number(b.header.number) = Some(b)

\* C16's case: two blocks have been committed
C16_Witness ==
    pc = "idle" /\ state.next_number = 3

\* C17: when save_block(b) has returned, b is read back by its header hash
\* and by its number, each of its transactions by its tx_hash, and
\* get_latest_block gives b.header; between ticks get_latest_block gives the
\* header of the block saved last
C17_RoundTrip ==
    /\ Saved =>
           /\ get_block_by_hash(header_hash(block)) = Some(block)
           /\ get_block_by_number(block.header.number) = Some(block)
           /\ \A i \in 1..Len(block.txs) :
                  get_tx_by_hash(block.txs[i].tx_hash) = Some(block.txs[i])
           /\ get_latest_block = [outcome |-> "ok", value |-> block.header]
    /\ (pc = "idle" /\ state.next_number > 1) =>
           get_latest_block =
               [outcome |-> "ok",
                value |-> get_block_by_number(state.next_number - 1)[1].header]

\* C17's case: the second block, with two transactions, has been saved
C17_Witness ==
    Saved /\ block.header.number = 2 /\ Len(block.txs) = 2

\* C18: at no instant does the store show a part of a block: the latest
\* header always names a block that is readable by its number with all its
\* transactions, and every stored block has its number entry, its
\* transactions and a latest header
C18_SaveBlockAtomic ==
    /\ latest_header # None =>
           LET h == get_latest_block.value
               b == get_block_by_number(h.number)
           IN  /\ b # None
               /\ b[1].header = h
               /\ \A i \in 1..Len(b[1].txs) : get_tx_by_hash(b[1].txs[i].tx_hash) # None
    /\ \A hash \in DOMAIN block_tree :
           LET b == get_block_by_hash(hash)[1]
           IN  /\ latest_header # None
               /\ get_block_by_number(b.header.number) # None
               /\ \A i \in 1..Len(b.txs) : get_tx_by_hash(b.txs[i].tx_hash) # None

\* C19: no read of the chain store panics: get_latest_block and the
\* get_balance RPC return a value or an error, whatever the store holds,
\* and a read of a missing block or transaction returns None
C19_MissingKeyNeverPanics ==
    /\ get_latest_block.outcome \in {"ok", "err"}
    /\ \A a \in Addresses, t \in TokenIds : rpc_get_balance(a, t).outcome \in {"ok", "err"}
    /\ AbsentHash \notin DOMAIN block_tree => get_block_by_hash(AbsentHash) = None
    /\ AbsentHash \notin DOMAIN tx_tree => get_tx_by_hash(AbsentHash) = None
    /\ get_block_by_number(state.next_number + 1) = None

\* ------------------------------------------------ channel tier claims
\* a step of exec's loop that ran create_channel
CreateStep ==
    /\ cpc = "exec"
    /\ Len(receipts) < Len(transactions)
    /\ Len(receipts') = Len(receipts) + 1
    /\ ChannelCurTx.kind = "CreateChannel"

\* the channels the tree holds before and after the step
LeavesBefore == smt_leaves(store_leaves, overlay_leaves)
LeavesAfter == smt_leaves(store_leaves, overlay_leaves')

\* a channel is at id, written by an earlier block or earlier in this one
ChannelAt(id) == id \in DOMAIN LeavesBefore /\ LeavesBefore[id].state # "NonExists"

\* C20: a CreateChannel whose args.id holds a channel (one written earlier
\* in the same block counts) gets the receipt ErrorChannelExists and leaves
\* every channel as it was; any other CreateChannel succeeds and writes, at
\* args.id only, a channel with state Open, version 0, balance2 =
\* args.balance2 and total_balance = the sum of the two settled balances.
C20_CreateChannel ==
    [][ CreateStep =>
          LET args == ChannelCurTx
              receipt == receipts'[Len(receipts')]
          IN  IF ChannelAt(args.id)
              THEN /\ receipt.exit_code = "ErrorChannelExists"
                   /\ LeavesAfter = LeavesBefore
              ELSE /\ receipt.exit_code = "Success"
                   /\ DOMAIN LeavesAfter = (DOMAIN LeavesBefore) \cup {args.id}
                   /\ \A k \in DOMAIN LeavesBefore :
                          k # args.id => LeavesAfter[k] = LeavesBefore[k]
                   /\ LeavesAfter[args.id].id = args.id
                   /\ LeavesAfter[args.id].state = "Open"
                   /\ LeavesAfter[args.id].version = 0
                   /\ LeavesAfter[args.id].balance2 = args.balance2
                   /\ LeavesAfter[args.id].total_balance =
                          args.balance2[1].settled + args.balance2[2].settled
                   /\ LeavesAfter[args.id].participant2 = args.participant2 ]_vars

\* exec has run two CreateChannel of one id and different balances in one
\* block: the first succeeded, the second was refused, and the channel of
\* the first is the one in the tree
C20_Witness ==
    /\ cpc = "exec"
    /\ Len(receipts) = 2
    /\ transactions[1].kind = "CreateChannel"
    /\ transactions[2].kind = "CreateChannel"
    /\ transactions[1].id = transactions[2].id
    /\ transactions[1].balance2 # transactions[2].balance2
    /\ receipts[1].exit_code = "Success"
    /\ receipts[2].exit_code = "ErrorChannelExists"
    /\ overlay_leaves[transactions[1].id].balance2 = transactions[1].balance2
    /\ overlay_leaves[transactions[1].id].total_balance = 3

\* a step of exec's loop that ran update_channel or close_channel
VersionedStep ==
    /\ cpc = "exec"
    /\ Len(receipts) < Len(transactions)
    /\ Len(receipts') = Len(receipts) + 1
    /\ ChannelCurTx.kind \in {"UpdateChannel", "CloseChannel"}

\* the receipt the step pushed
PushedReceipt == receipts'[Len(receipts')]

\* C21: a successful UpdateChannel or CloseChannel leaves the channel with
\* version args.version, greater than the version it had; one whose
\* args.version is not greater than the channel's version gets
\* ErrorRollbackChannelVersion and leaves every channel and the root as they
\* were; and over any steps of any blocks the version a channel has in the
\* store never decreases.
C21_VersionMonotonic ==
    [][ /\ VersionedStep =>
            LET args == ChannelCurTx
                id == args.channel_id
            IN  /\ PushedReceipt.exit_code = "Success" =>
                      /\ ChannelAt(id)
                      /\ LeavesAfter[id].version = args.version
                      /\ LeavesAfter[id].version > LeavesBefore[id].version
                /\ (ChannelAt(id) /\ args.version <= LeavesBefore[id].version) =>
                      /\ PushedReceipt.exit_code = "ErrorRollbackChannelVersion"
                      /\ LeavesAfter = LeavesBefore
                      /\ smt_root(store_leaves, overlay_leaves') =
                             smt_root(store_leaves, overlay_leaves)
        /\ \A id \in DOMAIN store_leaves :
              /\ id \in DOMAIN store_leaves'
              /\ store_leaves'[id].version >= store_leaves[id].version ]_vars

\* a later block: the channel was updated to version 2 in an earlier block,
\* and in this one an UpdateChannel of version 1 and a CloseChannel of
\* version 2, both well signed, were refused as rollbacks
C21_Witness ==
    /\ cpc = "exec"
    /\ tip_number = 1
    /\ Len(receipts) = 2
    /\ transactions[1].kind = "UpdateChannel"
    /\ transactions[2].kind = "CloseChannel"
    /\ transactions[1].channel_id = transactions[2].channel_id
    /\ transactions[1].channel_id \in DOMAIN store_leaves
    /\ store_leaves[transactions[1].channel_id].version = 2
    /\ transactions[1].version = 1
    /\ transactions[2].version = 2
    /\ transactions[1].signature2[2].signer = "bob"
    /\ transactions[2].signature2[2].signer = "bob"
    /\ receipts[1].exit_code = "ErrorRollbackChannelVersion"
    /\ receipts[2].exit_code = "ErrorRollbackChannelVersion"
    /\ overlay_leaves = EmptyMap

\* C22: when a block is applied, every channel that a CloseChannel of the
\* block closed successfully reads from the store's tree with state Closed.
C22_ClosedAfterClose ==
    [][ (cpc = "apply" /\ cpc' = "idle") =>
          \A i \in 1..Len(transactions) :
              (transactions[i].kind = "CloseChannel" /\ receipts[i].exit_code = "Success")
              => smt_get(store_leaves', EmptyMap, transactions[i].channel_id).state
                     = "Closed" ]_vars

\* sig_msg of the args of an UpdateChannel or a CloseChannel
SigMsgOf(args) ==
    IF args.kind = "UpdateChannel"
    THEN <<"UpdateChannel", args.channel_id, args.version, args.balance2>>
    ELSE <<"CloseChannel", args.channel_id, args.version>>

\* the signature is a 65-byte signature over sig_msg(args) by one of the
\* two participants
GoodSignature(sig, args, participant2) ==
    /\ sig.len = 65
    /\ sig.msg = SigMsgOf(args)
    /\ sig.signer \in {participant2[1], participant2[2]}

\* C23 as stated: a successful UpdateChannel or CloseChannel has two good
\* signatures; and whenever a signature of an UpdateChannel or CloseChannel
\* for an existing channel is not good, the receipt is
\* ErrorUpdateChannelSignature and the channel is unchanged.
C23_BadSignatureAlwaysSignatureError ==
    [][ VersionedStep =>
          LET args == ChannelCurTx
              id == args.channel_id
              good == \A i \in 1..2 :
                          GoodSignature(args.signature2[i], args,
                                        LeavesBefore[id].participant2)
          IN  /\ PushedReceipt.exit_code = "Success" => (ChannelAt(id) /\ good)
              /\ (ChannelAt(id) /\ ~good) =>
                    /\ PushedReceipt.exit_code = "ErrorUpdateChannelSignature"
                    /\ LeavesAfter = LeavesBefore ]_vars

\* C23, amended: a successful UpdateChannel or CloseChannel has two good
\* signatures; an UpdateChannel or CloseChannel for an existing channel with
\* a signature that is not good never succeeds and leaves every channel
\* unchanged, and its receipt is ErrorUpdateChannelSignature when
\* args.version is greater than the channel's version (the version is
\* checked first: otherwise the receipt is ErrorRollbackChannelVersion);
\* with a greater version and two good signatures it succeeds, also when
\* both signatures are by the same participant.
C23_BadSignatureRefused ==
    [][ VersionedStep =>
          LET args == ChannelCurTx
              id == args.channel_id
              good == \A i \in 1..2 :
                          GoodSignature(args.signature2[i], args,
                                        LeavesBefore[id].participant2)
              newer == args.version > LeavesBefore[id].version
          IN  /\ PushedReceipt.exit_code = "Success" => (ChannelAt(id) /\ good)
              /\ (ChannelAt(id) /\ ~good) =>
                    /\ LeavesAfter = LeavesBefore
                    /\ PushedReceipt.exit_code =
                           IF newer THEN "ErrorUpdateChannelSignature"
                           ELSE "ErrorRollbackChannelVersion"
              /\ (ChannelAt(id) /\ good /\ newer) =>
                    PushedReceipt.exit_code = "Success" ]_vars

\* one block over a channel of an earlier block: an UpdateChannel signed
\* twice by alice succeeded, and a CloseChannel of a greater version whose
\* second signature lacks a byte was refused for its signature
C23_Witness ==
    /\ cpc = "exec"
    /\ tip_number = 1
    /\ Len(receipts) = 2
    /\ transactions[1].kind = "UpdateChannel"
    /\ transactions[1].signature2[2] =
           Sig("alice", SigMsgOf(transactions[1]))
    /\ receipts[1].exit_code = "Success"
    /\ transactions[2].kind = "CloseChannel"
    /\ transactions[2].channel_id = transactions[1].channel_id
    /\ transactions[2].version > transactions[1].version
    /\ transactions[2].signature2[2].len = 64
    /\ receipts[2].exit_code = "ErrorUpdateChannelSignature"
    /\ overlay_leaves[transactions[1].channel_id].version = transactions[1].version

\* a step of exec's loop, whatever the transaction
ExecStep ==
    /\ cpc = "exec"
    /\ Len(receipts) < Len(transactions)
    /\ Len(receipts') = Len(receipts) + 1

ErrorExitCodes ==
    {"ErrorChannelExists", "ErrorChannelNotFound", "ErrorRollbackChannelVersion",
     "ErrorUpdateChannelSignature"}

\* C24: a transaction whose receipt is not Success has one of the four
\* error exit codes and state_root zero, and its step leaves the overlay's
\* leaves and the root as they were and exec in its loop; exec returns only
\* with one receipt for each transaction it was given.
C24_RejectedWritesNothing ==
    [][ /\ (ExecStep /\ PushedReceipt.exit_code # "Success") =>
              /\ PushedReceipt.exit_code \in ErrorExitCodes
              /\ PushedReceipt.state_root = ZeroHash
              /\ overlay_leaves' = overlay_leaves
              /\ smt_root(store_leaves, overlay_leaves') =
                     smt_root(store_leaves, overlay_leaves)
              /\ store_leaves' = store_leaves
              /\ cpc' = "exec"
              /\ transactions' = transactions
        /\ (cpc = "exec" /\ cpc' = "apply") =>
              /\ Len(exec_receipt'[1].transaction_receipts) = Len(transactions)
              /\ exec_receipt'[1].transaction_receipts = receipts ]_vars

\* exec returned from a block whose first transaction was refused and whose
\* second, a CreateChannel, succeeded and is among the updated channels
C24_Witness ==
    /\ cpc = "apply"
    /\ Len(transactions) = 2
    /\ receipts[1].exit_code = "ErrorChannelNotFound"
    /\ receipts[1].state_root = ZeroHash
    /\ transactions[2].kind = "CreateChannel"
    /\ receipts[2].exit_code = "Success"
    /\ DOMAIN exec_receipt[1].updated_channels = {transactions[2].id}

\* C25: a successful CloseChannel leaves the channel with balance2,
\* total_balance, participant2, token and id as they were and version
\* args.version, and leaves every other channel as it was.
C25_CloseKeepsBalances ==
    [][ (VersionedStep /\ ChannelCurTx.kind = "CloseChannel"
            /\ PushedReceipt.exit_code = "Success") =>
          LET args == ChannelCurTx
              id == args.channel_id
          IN  /\ ChannelAt(id)
              /\ DOMAIN LeavesAfter = DOMAIN LeavesBefore
              /\ \A k \in DOMAIN LeavesBefore :
                     k # id => LeavesAfter[k] = LeavesBefore[k]
              /\ LeavesAfter[id].balance2 = LeavesBefore[id].balance2
              /\ LeavesAfter[id].total_balance = LeavesBefore[id].total_balance
              /\ LeavesAfter[id].participant2 = LeavesBefore[id].participant2
              /\ LeavesAfter[id].token = LeavesBefore[id].token
              /\ LeavesAfter[id].id = LeavesBefore[id].id
              /\ LeavesAfter[id].version = args.version ]_vars

\* a channel created with balances (2, 0) and updated to (1, 1) in the
\* first block was closed in the second: it has the update's balances
C25_Witness ==
    /\ cpc = "exec"
    /\ tip_number = 1
    /\ Len(receipts) = 1
    /\ transactions[1].kind = "CloseChannel"
    /\ receipts[1].exit_code = "Success"
    /\ transactions[1].channel_id \in DOMAIN store_leaves
    /\ store_leaves[transactions[1].channel_id].version = 1
    /\ store_leaves[transactions[1].channel_id].total_balance = 2
    /\ store_leaves[transactions[1].channel_id].balance2 = <<Balance(1), Balance(1)>>
    /\ overlay_leaves[transactions[1].channel_id].version = 2
    /\ overlay_leaves[transactions[1].channel_id].balance2 = <<Balance(1), Balance(1)>>

\* C26: no step of produce_block (its start, the rounds of exec's loop, its
\* return or its failure) changes the persistent store: the tree's leaves
\* and so its root and the channel a fresh SMT reads at any id, and the
\* chain's keys; and when exec fails its overlay is gone.
C26_ExecLeavesStoreAlone ==
    [][ (cpc = "idle" \/ cpc = "exec") =>
          /\ store_leaves' = store_leaves
          /\ channel_chain' = channel_chain
          /\ smt_root(store_leaves', EmptyMap) = smt_root(store_leaves, EmptyMap)
          /\ \A id \in ChannelIds :
                 smt_get(store_leaves', EmptyMap, id) = smt_get(store_leaves, EmptyMap, id)
          /\ (cpc' = "error" => overlay_leaves' = EmptyMap) ]_vars

\* produce_block has returned a receipt that creates two channels and
\* nothing of it is in the store: no leaf, the zero root, genesis as tip
C26_Witness ==
    /\ cpc = "apply"
    /\ DOMAIN consensus_receipt[1].updated_channels = ChannelIds
    /\ consensus_receipt[1].block.header.state_root # ZeroHash
    /\ store_leaves = EmptyMap
    /\ smt_root(store_leaves, EmptyMap) = ZeroHash
    /\ channel_chain = genesis_init

\* C27: when a receipt is applied, the store's tree has the root of the
\* block's header and, at every id the block updated, the channel the
\* executor computed; the tip is the block; and get_transaction and
\* get_transaction_receipt at the hash of each transaction of the block
\* return that transaction and its receipt.
C27_AppliedReceiptIsStored ==
    [][ (cpc = "apply" /\ cpc' = "idle") =>
          LET cr == consensus_receipt[1]
              b == cr.block
          IN  /\ smt_root(store_leaves', EmptyMap) = b.header.state_root
              /\ \A id \in DOMAIN cr.updated_channels :
                     smt_get(store_leaves', EmptyMap, id) = cr.updated_channels[id]
              /\ tip_block(channel_chain') = b
              /\ \A i \in 1..Len(b.txs) :
                     /\ get_transaction(channel_chain', tx_hash(b.txs[i])) = Some(b.txs[i])
                     /\ get_transaction_receipt(channel_chain', tx_hash(b.txs[i]))
                            = Some(cr.transaction_receipts[i]) ]_vars

\* C28: a block produced from no transactions has transaction_root zero
\* (the merkle root of no leaves), the state_root of the tip block, the
\* tip's number plus one and the tip's hash as parent_hash.
C28_EmptyBlock ==
    [][ (cpc = "exec" /\ cpc' = "apply" /\ packaged = <<>>) =>
          LET b == consensus_receipt'[1].block
              tip == tip_block(channel_chain)
          IN  /\ b.txs = <<>>
              /\ b.header.transaction_root = ZeroHash
              /\ b.header.state_root = tip.header.state_root
              /\ b.header.number = tip.header.number + 1
              /\ b.header.parent_hash = block_hash(tip) ]_vars

\* an empty second block on a first block that created a channel
C28_Witness ==
    /\ cpc = "apply"
    /\ packaged = <<>>
    /\ tip_number = 1
    /\ store_leaves # EmptyMap
    /\ consensus_receipt[1].block.header.number = 2
    /\ consensus_receipt[1].block.header.state_root # ZeroHash
    /\ consensus_receipt[1].block.header.state_root =
           tip_block(channel_chain).header.state_root

\* ------------------------------------------------- channel mempool claims
\* a step in which package_transactions returns
PackageStep == pool_call.op = "idle" /\ pool_call'.op = "packaged"

\* C29: package_transactions returns at most as many transactions as its
\* vector's capacity and at most one per sender, the one of a sender is the
\* first of that sender's bucket, and the pool is as it was before the call.
C29_PackageHeads ==
    [][ PackageStep =>
          LET out == pool_call'.out
          IN  /\ Len(out) <= PackageCapacity
              /\ \A i, j \in 1..Len(out) : out[i].from = out[j].from => i = j
              /\ \A i \in 1..Len(out) :
                    /\ out[i].from \in DOMAIN channel_pool
                    /\ channel_pool[out[i].from] # <<>>
                    /\ out[i] = channel_pool[out[i].from][1]
              /\ channel_pool' = channel_pool ]_vars

\* a full vector was returned from a pool of more senders than its capacity,
\* one of the returned transactions being the older of two of its sender
C29_Witness ==
    /\ pool_call.op = "packaged"
    /\ Len(pool_call.out) = PackageCapacity
    /\ Cardinality(DOMAIN channel_pool) > PackageCapacity
    /\ \E i \in 1..Len(pool_call.out) :
          /\ Len(channel_pool[pool_call.out[i].from]) >= 2
          /\ pool_call.out[i] = channel_pool[pool_call.out[i].from][1]
          /\ pool_call.out[i] # channel_pool[pool_call.out[i].from][2]

\* a step that is one round of reset's loop
ResetRoundStep == pool_call.op = "reset" /\ pool_call'.i = pool_call.i + 1

\* the places of the sender's bucket that hold the block transaction's hash
Matches(map, block_tx) ==
    IF block_tx.from \in DOMAIN map
    THEN {i \in 1..Len(map[block_tx.from]) : map[block_tx.from][i].hash = block_tx.hash}
    ELSE {}

\* C30: a round of reset, for one transaction of the block, removes the
\* sender's bucket when the first entry with the transaction's hash is the
\* bucket's last, otherwise leaves in the bucket exactly the entries after
\* that entry, in their order; every other bucket stays as it was, and a
\* sender or a hash the pool does not hold changes nothing.
C30_ResetKeepsSuffix ==
    [][ ResetRoundStep =>
          LET block_tx == pool_call.txs[pool_call.i]
              from == block_tx.from
              found == Matches(channel_pool, block_tx)
          IN  /\ DOMAIN channel_pool' \subseteq DOMAIN channel_pool
              /\ \A f \in (DOMAIN channel_pool) \ {from} :
                    f \in DOMAIN channel_pool' /\ channel_pool'[f] = channel_pool[f]
              /\ found = {} => channel_pool' = channel_pool
              /\ found # {} =>
                    LET txs == channel_pool[from]
                        idx == CHOOSE i \in found : \A j \in found : i <= j
                    IN  IF idx = Len(txs)
                        THEN from \notin DOMAIN channel_pool'
                        ELSE /\ from \in DOMAIN channel_pool'
                             /\ channel_pool'[from] = SubSeq(txs, idx + 1, Len(txs)) ]_vars

\* a round found the transaction in the middle of a bucket of three and left
\* the one entry after it, while another sender's bucket stayed as it was
C30_Witness ==
    /\ pool_call.op = "reset"
    /\ pool_call.i = 2
    /\ LET block_tx == pool_call.txs[1]
           from == block_tx.from
       IN  /\ from \in DOMAIN pool_call.before
           /\ Len(pool_call.before[from]) = 3
           /\ pool_call.before[from][2].hash = block_tx.hash
           /\ pool_call.before[from][1].hash # block_tx.hash
           /\ from \in DOMAIN channel_pool
           /\ channel_pool[from] = <<pool_call.before[from][3]>>
           /\ \E f \in (DOMAIN channel_pool) \ {from} :
                 channel_pool[f] = pool_call.before[f]

\* ---------------------------------------------- settlement, oracle claims
\* a step in which submit_block ran (one that changes nothing and repeats
\* the previous call is a stuttering step)
SubmitStep ==
    /\ oracle_call'.op = "submit_block"
    /\ \/ oracle_call.op # "submit_block"
       \/ oracle_call'.arg # oracle_call.arg
       \/ oracle_store' # oracle_store

\* C31: submit_block sets the confirmed watermark to confirmed + 1 when the
\* chain holds the block of that number and changes nothing otherwise; over
\* produce, apply and submit steps the watermark never decreases, grows by
\* one at a time and never exceeds the number of the tip block.
C31_WatermarkFollowsChain ==
    [][ LET w == confirmed_l3_blocks(oracle_store)
            w2 == confirmed_l3_blocks(oracle_store')
        IN  /\ SubmitStep =>
                  IF get_block(channel_chain, w + 1) # None
                  THEN w2 = w + 1
                  ELSE oracle_store' = oracle_store
            /\ w2 >= w
            /\ w2 <= w + 1
            /\ w2 <= tip_block(channel_chain').header.number ]_vars

\* the second block was submitted after the first
C31_Witness ==
    /\ oracle_call.op = "submit_block"
    /\ oracle_call.arg = <<1>>
    /\ confirmed_l3_blocks(oracle_store) = 2
    /\ tip_block(channel_chain).header.number = 2

\* C32: after a setter of the oracle, the getter of the same value returns
\* what was set.
C32_GetterReturnsLastSet ==
    /\ oracle_call.op = "set_confirmed_l3_blocks" =>
          <<confirmed_l3_blocks(oracle_store)>> = oracle_call.arg
    /\ oracle_call.op = "set_confirmed_l3_withdrawals" =>
          confirmed_l3_withdrawals(oracle_store) = oracle_call.arg
    /\ oracle_call.op = "set_pending_l3_withdrawals" =>
          pending_l3_withdrawals(oracle_store) = oracle_call.arg
    /\ oracle_call.op = "set_pending_l2_create_channels" =>
          pending_l2_create_channels(oracle_store) = oracle_call.arg

\* ------------------------------------------------------------ tree claims
\* a step that updated a tree directly
SmtUpdateStep(on) ==
    /\ smt_call'.on = on
    /\ \/ smt_call' # smt_call
       \/ store_leaves' # store_leaves
       \/ overlay_leaves' # overlay_leaves

\* C33: the tree without leaves has the zero root and reads the zero
\* channel at every key; after update(key, value) get(key) returns value and
\* every other key reads as before, on the tree over the store and on the
\* tree over a MemStore, whose update leaves the store's tree as it was.
C33_ReadYourWrites ==
    [][ /\ smt_root(EmptyMap, EmptyMap) = ZeroHash
        /\ \A k \in ChannelIds : smt_get(EmptyMap, EmptyMap, k) = ZeroChannel
        /\ SmtUpdateStep("store") =>
              /\ smt_get(store_leaves', EmptyMap, smt_call'.key) = smt_call'.value
              /\ \A k \in ChannelIds \ {smt_call'.key} :
                    smt_get(store_leaves', EmptyMap, k) = smt_get(store_leaves, EmptyMap, k)
        /\ SmtUpdateStep("overlay") =>
              /\ smt_get(store_leaves', overlay_leaves', smt_call'.key) = smt_call'.value
              /\ \A k \in ChannelIds \ {smt_call'.key} :
                    smt_get(store_leaves', overlay_leaves', k) =
                        smt_get(store_leaves, overlay_leaves, k)
              /\ \A k \in ChannelIds :
                    smt_get(store_leaves', EmptyMap, k) = smt_get(store_leaves, EmptyMap, k)
      ]_vars

\* the tree over the MemStore reads the zero channel just written over a
\* channel of the store, and the store's other channel through the overlay
C33_Witness ==
    /\ smt_call.on = "overlay"
    /\ smt_call.value = ZeroChannel
    /\ smt_call.key \in DOMAIN store_leaves
    /\ exists(store_leaves[smt_call.key])
    /\ smt_get(store_leaves, overlay_leaves, smt_call.key) = ZeroChannel
    /\ \E k \in ChannelIds \ {smt_call.key} :
          /\ k \notin DOMAIN overlay_leaves
          /\ k \in DOMAIN store_leaves
          /\ smt_get(store_leaves, overlay_leaves, k) = store_leaves[k]

\* ------------------------------------------- token executor cache claims
\* the first half of a request's round: the record is loaded
LoadStep == pc = "load" /\ pc' = "apply"

\* C34: a request that touches an (address, token_id) tx_exec_cache already
\* holds leaves the cached balance as it is, whatever the balance.
C34_CachedValueKept ==
    [][ (/\ LoadStep
         /\ CurReq.address \in DOMAIN tx_exec_cache
         /\ CurReq.token_id \in DOMAIN tx_exec_cache[CurReq.address]) =>
            tx_exec_cache'[CurReq.address][CurReq.token_id] =
                tx_exec_cache[CurReq.address][CurReq.token_id] ]_vars

\* C35: a call of exec returns what a call with the same state_root and
\* transactions returns on an Executor that has run no call before.
C35_ExecDependsOnArgsOnly ==
    [][ (exec_call'.n = exec_call.n + 1 /\ resp' # None) =>
          LET fresh == exec(exec_call'.state_root, exec_call'.txs)
          IN  /\ fresh.outcome = "ok"
              /\ resp'[1].state_root = fresh.state_root
              /\ resp'[1].inner = fresh.inner ]_vars

\* what one request adds to active + locked of (addr, token_id): a Mint
\* adds its amount, a Divert takes it off, a Transfer takes it off the
\* sender and adds it to the recipient, Lock and Unlock move it within
NetOfRequest(req, addr, token_id) ==
    IF req.token_id # token_id THEN 0
    ELSE CASE req.action = "Mint" -> IF req.address = addr THEN req.amount ELSE 0
           [] req.action = "Divert" -> IF req.address = addr THEN 0 - req.amount ELSE 0
           [] req.action = "Transfer" ->
                 (IF req.address = addr THEN 0 - req.amount ELSE 0) +
                 (IF req.to = Some(addr) THEN req.amount ELSE 0)
           [] OTHER -> 0

RECURSIVE NetOfRequests(_, _, _)
NetOfRequests(requests, addr, token_id) ==
    IF requests = <<>> THEN 0
    ELSE NetOfRequest(Head(requests), addr, token_id) +
         NetOfRequests(Tail(requests), addr, token_id)

RECURSIVE NetOfTxs(_, _, _)
NetOfTxs(txs, addr, token_id) ==
    IF txs = <<>> THEN 0
    ELSE NetOfRequests(Head(txs).raw.requests, addr, token_id) +
         NetOfTxs(Tail(txs), addr, token_id)

\* C36: when exec has returned, for every (address, token_id) the committed
\* active + locked is the active + locked at the input state_root plus what
\* the requests of the successful transactions added and took off.
C36_Conservation ==
    (pc = "save" /\ resp # None) =>
        \A addr \in Addresses, token_id \in TokenIds :
            LET before == BalanceAt(block.header.state_root, addr, token_id)
                after == BalanceAt(resp[1].state_root, addr, token_id)
                done == KeepSucceeded(block.txs, resp[1].inner)
            IN  after.active + after.locked =
                    before.active + before.locked + NetOfTxs(done, addr, token_id)

\* ------------------------------------------- channel lifetime claims
\* a CloseChannel on the channel has succeeded, earlier in the running
\* block or in a block of the chain
ClosedEarlier(id) ==
    \/ \E i \in 1..Len(receipts) :
          /\ transactions[i].kind = "CloseChannel"
          /\ transactions[i].channel_id = id
          /\ receipts[i].exit_code = "Success"
    \/ \E h \in DOMAIN channel_chain.transactions :
          /\ channel_chain.transactions[h].raw.kind = "CloseChannel"
          /\ channel_chain.transactions[h].raw.channel_id = id
          /\ h \in DOMAIN channel_chain.transaction_receipts
          /\ channel_chain.transaction_receipts[h].exit_code = "Success"

\* C37: once a CloseChannel on a channel has succeeded, no UpdateChannel or
\* CloseChannel on that channel succeeds and its balance2 stays as it is.
C37_CloseIsTerminal ==
    [][ (VersionedStep /\ ClosedEarlier(ChannelCurTx.channel_id)) =>
            /\ PushedReceipt.exit_code # "Success"
            /\ LeavesAfter[ChannelCurTx.channel_id].balance2 =
                   LeavesBefore[ChannelCurTx.channel_id].balance2 ]_vars

\* C38: every existing channel of the tree, in the store or in the running
\* exec's overlay, has total_balance = the sum of its two settled balances.
C38_TotalIsSumOfBalances ==
    \A id \in DOMAIN LeavesBefore :
        exists(LeavesBefore[id]) =>
            LeavesBefore[id].total_balance =
                LeavesBefore[id].balance2[1].settled + LeavesBefore[id].balance2[2].settled

\* a sender's bucket, empty when the map has none
BucketOf(map, f) == IF f \in DOMAIN map THEN map[f] ELSE <<>>

\* a is the beginning of b
IsPrefix(a, b) == Len(a) <= Len(b) /\ \A i \in 1..Len(a) : b[i] = a[i]

\* C39: in the producer's loop, with pushes interleaved, a sender's bucket
\* only grows at its end, except in a round of reset, which takes exactly
\* the bucket's first transaction, and only when that transaction is the one
\* of the round and is in the block committed at the tip, a block that holds
\* at most one transaction of each sender.
C39_OnlyIncludedLeave ==
    [][ \A f \in PoolSenders :
          LET old == BucketOf(channel_pool, f)
              new == BucketOf(channel_pool', f)
          IN  \/ IsPrefix(old, new)
              \/ /\ ResetRoundStep
                 /\ old # <<>>
                 /\ new = Tail(old)
                 /\ Head(old) = pool_call.txs[pool_call.i]
                 /\ LET txs == tip_block(channel_chain).txs
                    IN  /\ \E i \in 1..Len(txs) : txs[i] = Head(old)
                        /\ \A i, j \in 1..Len(txs) :
                              txs[i].from = txs[j].from => i = j ]_vars

\* a round of reset has taken the first of a sender's two transactions, which
\* the second block holds, and left the second one and another sender's bucket
C39_Witness ==
    /\ pool_call.op = "reset"
    /\ pool_call.i = 2
    /\ tip_number = 2
    /\ LET block_tx == pool_call.txs[1]
           from == block_tx.from
       IN  /\ Len(BucketOf(pool_call.before, from)) = 2
           /\ pool_call.before[from][1] = block_tx
           /\ BucketOf(channel_pool, from) = Tail(pool_call.before[from])
           /\ tip_block(channel_chain).txs[1] = block_tx
           /\ \E g \in DOMAIN channel_pool : g # from

\* the block reset is called with holds a transaction of the sender
IncludedFrom(f) ==
    /\ pool_call.op = "reset"
    /\ \E i \in 1..Len(pool_call.txs) : pool_call.txs[i].from = f

\* C40: when the loop is repeated forever, a sender with a transaction in
\* the pool eventually has a transaction in a committed block that reset is
\* called with (the first of the bucket, by the order of inclusion), also
\* when more senders are pending than the block's capacity.
C40_EventuallyIncluded ==
    \A f \in PoolSenders : (f \in DOMAIN channel_pool) ~> IncludedFrom(f)

====
